---------------------------- MODULE Spec2Model ----------------------------
(***************************************************************************)
(* Model of the AI use-case registry / governance intake service           *)
(* (src/app/risk.py, src/app/main.py, src/app/models.py,                   *)
(* src/app/schemas.py).                                                    *)
(*                                                                         *)
(* Python values are tagged records so that None, "", [] and {} stay       *)
(* distinct and Python truthiness can be computed as the interpreter does. *)
(* Strings that are lower-cased by the code (risk.py) are sequences of     *)
(* one-character strings; strings that are only stored and tested for      *)
(* emptiness (the intake fields) are TLA+ strings.                         *)
(***************************************************************************)
EXTENDS Integers, Sequences, FiniteSets, TLC

VARIABLES
    usecases,           \* table "usecases": id -> UseCase row
    intakes,            \* table "intakes": id -> Intake row
    risk_assessments,   \* table "risk_assessments": id -> row (with intake_id)
    required_artifacts, \* table "required_artifacts": id -> row (with intake_id)
    action_items,       \* table "action_items": id -> row (with intake_id)
    now,                \* the value the next datetime.utcnow() call returns
    req,                \* the request (or call) being served / last served
    resp                \* its outcome

db   == <<usecases, intakes, risk_assessments, required_artifacts, action_items>>
vars == <<usecases, intakes, risk_assessments, required_artifacts, action_items,
         now, req, resp>>

---------------------------------------------------------------------------
(* Bounds of the model *)

\* longest data_types list given to compute_risk_tier
MaxTypes == 2

\* most risk findings of the record given to compute_section_completion
MaxFindings == 2

\* most keys (fields, or sections given as null or {}) set in one request
\* body given to apply_section_updates
MaxSetKeys == 2

\* ids of the intakes table, and of each child table
MaxIntakes == 1
MaxKids == 1

\* ids of the usecases table
MaxUseCases == 1

\* last instant datetime.utcnow() returns; every call returns a later instant
\* than the call before it
MaxClock == 2

---------------------------------------------------------------------------
(* Python values *)

None      == [t |-> "None"]
Str(s)    == [t |-> "str", v |-> s]
Bool(b)   == [t |-> "bool", v |-> b]
IntV(n)   == [t |-> "int", v |-> n]
List(q)   == [t |-> "list", v |-> q]
Dict(f)   == [t |-> "dict", v |-> f]

\* the empty mapping {}
EmptyMap == [k \in {} |-> None]

\* bool(x) of the Python interpreter
Truthy(x) ==
    CASE x.t = "None" -> FALSE
      [] x.t = "str"  -> x.v # ""
      [] x.t = "bool" -> x.v
      [] x.t = "int"  -> x.v # 0
      [] x.t = "list" -> Len(x.v) > 0
      [] x.t = "dict" -> DOMAIN x.v # {}

\* outcome of a call or request that has not run yet
Pending     == [status |-> "pending"]
Returned(v) == [status |-> "returned", value |-> v]
Raised(e)   == [status |-> "raised", value |-> e]

---------------------------------------------------------------------------
(* str.lower() on sequences of characters *)

UPPERCASE == <<"A","B","C","D","E","F","G","H","I","J","K","L","M",
               "N","O","P","Q","R","S","T","U","V","W","X","Y","Z">>
LOWERCASE == <<"a","b","c","d","e","f","g","h","i","j","k","l","m",
               "n","o","p","q","r","s","t","u","v","w","x","y","z">>

\* the lower-case letter of each upper-case letter
ToLower ==
    [c \in {UPPERCASE[i] : i \in 1..26} |->
        LOWERCASE[CHOOSE i \in 1..26 : UPPERCASE[i] = c]]

lower_char(c) == IF c \in DOMAIN ToLower THEN ToLower[c] ELSE c

lower(s) == [i \in 1..Len(s) |-> lower_char(s[i])]

---------------------------------------------------------------------------
(* src/app/risk.py *)

HIGH_RISK_DATA_TYPES ==
    { <<"p","i","i">>  \* "pii"
    , <<"p","e","r","s","o","n","a","l"," ","d","a","t","a">>  \* "personal data"
    , <<"h","e","a","l","t","h"," ","d","a","t","a">>  \* "health data"
    , <<"f","i","n","a","n","c","i","a","l"," ","d","a","t","a">>  \* "financial data"
    , <<"b","i","o","m","e","t","r","i","c">>  \* "biometric"
    , <<"b","i","o","m","e","t","r","i","c"," ","d","a","t","a">>  \* "biometric data"
    , <<"l","o","c","a","t","i","o","n"," ","d","a","t","a">>  \* "location data"
    , <<"g","e","n","e","t","i","c"," ","d","a","t","a">>  \* "genetic data"
    }

MEDIUM_RISK_DATA_TYPES ==
    { <<"c","u","s","t","o","m","e","r"," ","d","a","t","a">>  \* "customer data"
    , <<"e","m","p","l","o","y","e","e"," ","d","a","t","a">>  \* "employee data"
    , <<"u","s","a","g","e"," ","d","a","t","a">>  \* "usage data"
    , <<"b","e","h","a","v","i","o","r","a","l"," ","d","a","t","a">>  \* "behavioral data"
    }

LOW_RISK_DATA_TYPES ==
    { <<"p","u","b","l","i","c"," ","d","a","t","a">>  \* "public data"
    , <<"a","g","g","r","e","g","a","t","e","d"," ","d","a","t","a">>  \* "aggregated data"
    , <<"p","r","o","d","u","c","t"," ","d","a","t","a">>  \* "product data"
    , <<"i","n","t","e","r","n","a","l"," ","d","o","c","u","m","e","n","t","s">>  \* "internal documents"
    }

HIGH_RISK_RESIDENCY ==
    { <<"i","n","t","e","r","n","a","t","i","o","n","a","l">>  \* "international"
    , <<"m","u","l","t","i","-","r","e","g","i","o","n">>  \* "multi-region"
    , <<"u","n","k","n","o","w","n">>  \* "unknown"
    }

S_yes == <<"y","e","s">>

\* data_types_lower = {dt.lower() for dt in data_types}
data_types_lower(data_types) ==
    { lower(data_types[i]) : i \in 1..Len(data_types) }

\* risk_score as accumulated by lines 56-73, for a list and two strings
\* (mutants of it, used by the checks of the claims, are defined first)
risk_score_per_match(data_types, data_residency, external_sharing) ==
      3 * Cardinality({i \in 1..Len(data_types) :
                          lower(data_types[i]) \in HIGH_RISK_DATA_TYPES})
    + Cardinality({i \in 1..Len(data_types) :
                          lower(data_types[i]) \in MEDIUM_RISK_DATA_TYPES})
    + (IF lower(data_residency) \in HIGH_RISK_RESIDENCY THEN 2 ELSE 0)
    + (IF lower(external_sharing) = S_yes THEN 2 ELSE 0)

risk_score_case_sensitive(data_types, data_residency, external_sharing) ==
      (IF {data_types[i] : i \in 1..Len(data_types)} \cap HIGH_RISK_DATA_TYPES # {}
       THEN 3 ELSE 0)
    + (IF data_types_lower(data_types) \cap MEDIUM_RISK_DATA_TYPES # {} THEN 1 ELSE 0)
    + (IF lower(data_residency) \in HIGH_RISK_RESIDENCY THEN 2 ELSE 0)
    + (IF external_sharing = S_yes THEN 2 ELSE 0)

\* risk_score with a discount for a low-risk label (LOW_RISK_DATA_TYPES is
\* not used by the code)
risk_score_low_discount(data_types, data_residency, external_sharing) ==
      (IF data_types_lower(data_types) \cap HIGH_RISK_DATA_TYPES # {} THEN 3 ELSE 0)
    + (IF data_types_lower(data_types) \cap MEDIUM_RISK_DATA_TYPES # {} THEN 1 ELSE 0)
    + (IF lower(data_residency) \in HIGH_RISK_RESIDENCY THEN 2 ELSE 0)
    + (IF lower(external_sharing) = S_yes THEN 2 ELSE 0)
    - (IF data_types_lower(data_types) \cap LOW_RISK_DATA_TYPES # {} THEN 1 ELSE 0)

risk_score(data_types, data_residency, external_sharing) ==
      (IF data_types_lower(data_types) \cap HIGH_RISK_DATA_TYPES # {} THEN 3 ELSE 0)
    + (IF data_types_lower(data_types) \cap MEDIUM_RISK_DATA_TYPES # {} THEN 1 ELSE 0)
    + (IF lower(data_residency) \in HIGH_RISK_RESIDENCY THEN 2 ELSE 0)
    + (IF lower(external_sharing) = S_yes THEN 2 ELSE 0)

\* the final if/elif/else of compute_risk_tier
tier_of_score_low_threshold(score) ==
    IF score >= 2 THEN "high" ELSE IF score >= 1 THEN "medium" ELSE "low"

tier_of_score(score) ==
    IF score >= 3 THEN "high" ELSE IF score >= 1 THEN "medium" ELSE "low"

\* compute_risk_tier on Python values.  Iterating None raises TypeError,
\* None.lower() raises AttributeError; the outcome is then the exception's name.
compute_risk_tier_strict(data_types, data_residency, external_sharing) ==
    IF data_types.t # "list" THEN "TypeError"
    ELSE IF data_residency.t # "str" THEN "AttributeError"
    ELSE IF external_sharing.t # "str" THEN "AttributeError"
    ELSE IF  \/ \E i \in 1..Len(data_types.v) :
                    lower(data_types.v[i]) \notin
                      (HIGH_RISK_DATA_TYPES \cup MEDIUM_RISK_DATA_TYPES \cup LOW_RISK_DATA_TYPES)
             \/ lower(external_sharing.v) \notin {S_yes, <<"n","o">>}
         THEN "ValueError"
    ELSE tier_of_score(risk_score(data_types.v, data_residency.v, external_sharing.v))

compute_risk_tier(data_types, data_residency, external_sharing) ==
    IF data_types.t # "list" THEN "TypeError"
    ELSE IF data_residency.t # "str" THEN "AttributeError"
    ELSE IF external_sharing.t # "str" THEN "AttributeError"
    ELSE tier_of_score(risk_score(data_types.v, data_residency.v, external_sharing.v))

Tiers      == {"low", "medium", "high"}
Exceptions == {"TypeError", "AttributeError", "ValueError"}

---------------------------------------------------------------------------
(* Calls of compute_risk_tier on enumerated inputs *)

\* data-type labels offered to compute_risk_tier: members of each class in
\* several letter cases, near misses (a prefix, a superstring), unknown
RiskLabels ==
    { <<"p","i","i">>, <<"P","I","I">>
    , <<"H","e","a","l","t","h"," ","D","a","t","a">>
    , <<"c","u","s","t","o","m","e","r"," ","d","a","t","a">>
    , <<"U","S","A","G","E"," ","D","A","T","A">>
    , <<"p","u","b","l","i","c"," ","d","a","t","a">>
    , <<"p","i">>
    , <<"p","i","i"," ","d","a","t","a">>
    , <<"f","o","o">>
    }

RiskResidencies ==
    { <<"u","s">>
    , <<"i","n","t","e","r","n","a","t","i","o","n","a","l">>
    , <<"I","n","t","e","r","n","a","t","i","o","n","a","l">>
    , <<"M","U","L","T","I","-","R","E","G","I","O","N">>
    , <<"u","n","k","n","o","w","n">>
    , <<"i","n","t","e","r">>
    , <<>>
    }

RiskSharings ==
    { S_yes, <<"n","o">>, <<"Y","E","S">>, <<"Y","e","s">>
    , <<"m","a","y","b","e">>, <<"y","e","s","!">>, <<>> }

\* lists of at most n labels
RECURSIVE ListsUpTo(_, _)
ListsUpTo(S, n) ==
    IF n = 0 THEN {<<>>}
    ELSE LET shorter == ListsUpTo(S, n - 1)
         IN  shorter \cup {Append(q, x) : q \in {r \in shorter : Len(r) = n - 1}, x \in S}

RiskCalls ==
    { [op |-> "compute_risk_tier", data_types |-> d, data_residency |-> r,
       external_sharing |-> e] :
        d \in {None} \cup {List(q) : q \in ListsUpTo(RiskLabels, MaxTypes)},
        r \in {None} \cup {Str(s) : s \in RiskResidencies},
        e \in {None} \cup {Str(s) : s \in RiskSharings} }

EmptyDb ==
    /\ usecases = EmptyMap
    /\ intakes = EmptyMap
    /\ risk_assessments = EmptyMap
    /\ required_artifacts = EmptyMap
    /\ action_items = EmptyMap
    /\ now = 1

InitRisk ==
    /\ EmptyDb
    /\ req \in RiskCalls
    /\ resp = Pending

\* the call runs to its return or to its exception
RiskCall ==
    /\ req.op = "compute_risk_tier"
    /\ resp = Pending
    /\ LET out == compute_risk_tier(req.data_types, req.data_residency, req.external_sharing)
       IN  resp' = IF out \in Exceptions THEN Raised(out) ELSE Returned(out)
    /\ UNCHANGED <<db, now, req>>

NextRisk == RiskCall

SpecRisk == InitRisk /\ [][NextRisk]_vars

---------------------------------------------------------------------------
(* Claims about compute_risk_tier (checked under SpecRisk) *)

\* the served call is a compute_risk_tier call on a list of strings and two strings
RiskCallOnStrings ==
    /\ req.op = "compute_risk_tier"
    /\ req.data_types.t = "list"
    /\ req.data_residency.t = "str"
    /\ req.external_sharing.t = "str"

RiskCallDone == RiskCallOnStrings /\ resp # Pending

Flag(b) == IF b THEN 1 ELSE 0

\* the additive score S of the specification
AdditiveScore(d, r, e) ==
      3 * Flag(\E i \in 1..Len(d) : lower(d[i]) \in HIGH_RISK_DATA_TYPES)
    + 1 * Flag(\E i \in 1..Len(d) : lower(d[i]) \in MEDIUM_RISK_DATA_TYPES)
    + 2 * Flag(lower(r) \in HIGH_RISK_RESIDENCY)
    + 2 * Flag(lower(e) = S_yes)

S_us            == <<"u","s">>
S_no            == <<"n","o">>
S_pii           == <<"p","i","i">>
S_international == <<"i","n","t","e","r","n","a","t","i","o","n","a","l">>
S_customer_data == <<"c","u","s","t","o","m","e","r"," ","d","a","t","a">>
S_public_data   == <<"p","u","b","l","i","c"," ","d","a","t","a">>
S_personal_data == <<"p","e","r","s","o","n","a","l"," ","d","a","t","a">>
S_health_data   == <<"h","e","a","l","t","h"," ","d","a","t","a">>

\* the six literal boundary cases of the tier table
TierBoundaryTable ==
    /\ compute_risk_tier(List(<<S_pii>>), Str(S_us), Str(S_no)) = "high"
    /\ compute_risk_tier(List(<<S_customer_data>>), Str(S_us), Str(S_no)) = "medium"
    /\ compute_risk_tier(List(<<S_public_data>>), Str(S_us), Str(S_no)) = "low"
    /\ compute_risk_tier(List(<<>>), Str(S_international), Str(S_no)) = "medium"
    /\ compute_risk_tier(List(<<>>), Str(S_us), Str(S_yes)) = "medium"
    /\ compute_risk_tier(List(<<S_pii>>), Str(S_international), Str(S_yes)) = "high"

InClass(d, K) == {i \in 1..Len(d) : lower(d[i]) \in K}

\* d restricted to the positions in keep, order kept
RECURSIVE Restrict(_, _)
Restrict(d, keep) ==
    IF d = <<>> THEN <<>>
    ELSE LET rest == Restrict(Tail(d), {i - 1 : i \in keep \ {1}})
         IN  IF 1 \in keep THEN <<Head(d)>> \o rest ELSE rest

\* d with every label of class K dropped except the one at position i
OnlyOneOf(d, K, i) == Restrict(d, ((1..Len(d)) \ InClass(d, K)) \cup {i})

\* C2: a list with several high-sensitivity labels (likewise several
\* medium-sensitivity labels) has the same score and the same tier as the list
\* with exactly one label of that class kept: +3 and +1 are added once each.
C2_NoDoubleCounting ==
    /\ risk_score(<<S_pii, S_personal_data, S_health_data>>, S_us, S_no) = 3
    /\ compute_risk_tier(List(<<S_pii, S_personal_data, S_health_data>>),
                         Str(S_us), Str(S_no)) = "high"
    /\ RiskCallDone =>
         LET d == req.data_types.v
             r == req.data_residency.v
             e == req.external_sharing.v
         IN  \A K \in {HIGH_RISK_DATA_TYPES, MEDIUM_RISK_DATA_TYPES} :
               \A i \in InClass(d, K) :
                 /\ risk_score(OnlyOneOf(d, K, i), r, e) = risk_score(d, r, e)
                 /\ Returned(compute_risk_tier(List(OnlyOneOf(d, K, i)), Str(r), Str(e)))
                      = resp

\* C2 witness: a call with two different high-sensitivity labels has returned
C2_Witness ==
    /\ RiskCallDone
    /\ Cardinality(data_types_lower(req.data_types.v) \cap HIGH_RISK_DATA_TYPES) >= 2
    /\ resp = Returned("high")

\* str.upper(), used to change the letter case of an input
ToUpper ==
    [c \in {LOWERCASE[i] : i \in 1..26} |->
        UPPERCASE[CHOOSE i \in 1..26 : LOWERCASE[i] = c]]

upper_char(c) == IF c \in DOMAIN ToUpper THEN ToUpper[c] ELSE c

upper(s) == [i \in 1..Len(s) |-> upper_char(s[i])]

\* the same call with the letter case of one input, or of all of them, changed
CaseVariants(c) ==
    LET d == c.data_types.v
        r == c.data_residency.v
        e == c.external_sharing.v
    IN  {<<[d EXCEPT ![i] = upper(d[i])], r, e>> : i \in 1..Len(d)}
          \cup {<<[d EXCEPT ![i] = lower(d[i])], r, e>> : i \in 1..Len(d)}
          \cup {<<d, upper(r), e>>, <<d, lower(r), e>>}
          \cup {<<d, r, upper(e)>>, <<d, r, lower(e)>>}
          \cup {<<[i \in 1..Len(d) |-> upper(d[i])], upper(r), upper(e)>>,
                <<[i \in 1..Len(d) |-> lower(d[i])], lower(r), lower(e)>>}

\* C3: the result of compute_risk_tier does not change when the letter case of
\* a data-type label, of the residency or of the sharing value is changed; and
\* matching is by exact string: when no lower-cased input equals a listed
\* entry (a prefix or a superstring of one does not count), the tier is low.
C3_CaseInsensitive ==
    RiskCallDone =>
      /\ \A v \in CaseVariants(req) :
           Returned(compute_risk_tier(List(v[1]), Str(v[2]), Str(v[3]))) = resp
      /\ ( /\ \A i \in 1..Len(req.data_types.v) :
                lower(req.data_types.v[i]) \notin
                   (HIGH_RISK_DATA_TYPES \cup MEDIUM_RISK_DATA_TYPES)
           /\ lower(req.data_residency.v) \notin HIGH_RISK_RESIDENCY
           /\ lower(req.external_sharing.v) # S_yes )
         => resp = Returned("low")

\* C3 witness: tier(["PII"], "us", "YES") has returned; only upper-case inputs match
C3_Witness ==
    /\ RiskCallDone
    /\ req.data_types.v = << <<"P","I","I">> >>
    /\ req.data_residency.v = <<"M","U","L","T","I","-","R","E","G","I","O","N">>
    /\ req.external_sharing.v = <<"Y","E","S">>
    /\ resp = Returned("high")

\* a label, residency or sharing value outside the known vocabularies
UnknownLabel(x)     == lower(x) \notin (HIGH_RISK_DATA_TYPES \cup MEDIUM_RISK_DATA_TYPES)
UnknownResidency(x) == lower(x) \notin HIGH_RISK_RESIDENCY
UnknownSharing(x)   == lower(x) # S_yes

\* C4: on a list of strings and two strings compute_risk_tier always returns
\* one of low/medium/high and never raises, and an unrecognised label,
\* residency or sharing value adds 0 to the score: dropping the unrecognised
\* labels, or replacing an unrecognised residency or sharing value by the
\* empty string, leaves the score unchanged.
C4_TotalSilentNonMatch ==
    RiskCallDone =>
      LET d == req.data_types.v
          r == req.data_residency.v
          e == req.external_sharing.v
          known == {i \in 1..Len(d) : ~UnknownLabel(d[i])}
      IN  /\ resp.status = "returned"
          /\ resp.value \in Tiers
          /\ tier_of_score(risk_score(Restrict(d, known), r, e)) = resp.value
          /\ risk_score(Restrict(d, known), r, e) = risk_score(d, r, e)
          /\ UnknownResidency(r) => risk_score(d, <<>>, e) = risk_score(d, r, e)
          /\ UnknownSharing(e) => risk_score(d, r, <<>>) = risk_score(d, r, e)
          /\ (known = {} /\ UnknownResidency(r) /\ UnknownSharing(e))
               => risk_score(d, r, e) = 0

\* C4 witness: a call whose inputs are all outside the vocabularies has returned low
C4_Witness ==
    /\ RiskCallDone
    /\ req.data_types.v = << <<"f","o","o">>, <<"p","i","i"," ","d","a","t","a">> >>
    /\ req.data_residency.v = <<"i","n","t","e","r">>
    /\ req.external_sharing.v = <<"m","a","y","b","e">>
    /\ resp = Returned("low")

---------------------------------------------------------------------------
(* src/app/models.py: the Intake row *)

\* The columns of Intake that the code reads or writes by name, and for every
\* section of the wizard the columns its completion rule reads plus, where the
\* rule reads none, one column of the section.  The other columns of a section
\* are handled by the same generic loop of apply_section_updates.
Section1Columns == {"system_name", "business_purpose"}
Section2Columns == {"decision_classification"}
Section3Columns == {"approved_data_types", "prohibited_data_types"}
Section4Columns == {"approving_authority", "business_owner", "technical_owner",
                    "business_owner_email"}
Section5Columns == {"federal_contracts"}
Section6Columns == {"usage_logging_enabled"}
Section8Columns == {"identified_gaps"}
Section9Columns == {"readiness_status"}
MetadataColumns == {"intake_status", "current_step", "section_completion",
                    "computed_risk_tier", "submitted_at", "last_autosave_at"}

IntakeColumns ==
    Section1Columns \cup Section2Columns \cup Section3Columns \cup Section4Columns
      \cup Section5Columns \cup Section6Columns \cup Section8Columns
      \cup Section9Columns \cup MetadataColumns

\* relationship attributes of the mapped Intake object
IntakeRelationships == {"risk_assessments", "required_artifacts", "action_items"}

\* Column(..., default=...) values applied when the row is inserted; a column
\* without a default is NULL
ColumnDefault(c) ==
    CASE c \in {"approved_data_types", "prohibited_data_types", "identified_gaps"}
             -> List(<<>>)
      [] c \in {"federal_contracts", "usage_logging_enabled"} -> Bool(FALSE)
      [] c = "intake_status"      -> Str("draft")
      [] c = "current_step"       -> IntV(1)
      [] c = "section_completion" -> Dict(EmptyMap)
      [] OTHER -> None

\* Intake(**given) after db.add / db.commit / db.refresh
NewIntakeRow(given) ==
    [c \in IntakeColumns |-> IF c \in DOMAIN given THEN given[c] ELSE ColumnDefault(c)]

\* the mapped object of a row: its columns and its relationship collections
\* (sets of child ids)
IntakeObject(row, risks, artifacts, actions) ==
    row @@ [risk_assessments |-> risks, required_artifacts |-> artifacts,
            action_items |-> actions]

\* the columns of a mapped object, as written back by db.commit()
RowOf(intake) == [c \in IntakeColumns |-> intake[c]]

---------------------------------------------------------------------------
(* src/app/main.py: compute_section_completion *)

SectionKeys == {"1", "2", "3", "4", "5", "6", "7", "8", "9", "10"}

\* x and y / x or y of Python, as a truth value
PyAnd(x, y) == Truthy(x) /\ Truthy(y)
PyOr(x, y)  == Truthy(x) \/ Truthy(y)

compute_section_completion_all_required(intake) ==
    [k \in SectionKeys |->
        CASE k = "1" -> PyAnd(intake.system_name, intake.business_purpose)
          [] k = "2" -> Truthy(intake.decision_classification)
          [] k = "3" -> PyOr(intake.approved_data_types, intake.prohibited_data_types)
          [] k = "4" -> /\ Truthy(intake.approving_authority)
                        /\ Truthy(intake.business_owner)
                        /\ Truthy(intake.technical_owner)
          [] k = "5" -> Truthy(intake.federal_contracts)
          [] k = "6" -> Truthy(intake.usage_logging_enabled)
          [] k = "7" -> Cardinality(intake.risk_assessments) > 0
          [] k = "8" -> Cardinality(intake.required_artifacts) > 0
          [] k = "9" -> Truthy(intake.readiness_status)
          [] k = "10" -> Cardinality(intake.action_items) > 0]

compute_section_completion_any_field(intake) ==
    [k \in SectionKeys |->
        CASE k = "1" -> PyOr(intake.system_name, intake.business_purpose)
          [] k = "2" -> Truthy(intake.decision_classification)
          [] k = "3" -> PyAnd(intake.approved_data_types, intake.prohibited_data_types)
          [] k = "4" -> \/ Truthy(intake.approving_authority)
                        \/ Truthy(intake.business_owner)
                        \/ Truthy(intake.technical_owner)
          [] k = "7" -> TRUE
          [] OTHER -> TRUE]

compute_section_completion(intake) ==
    [k \in SectionKeys |->
        CASE k = "1" -> PyAnd(intake.system_name, intake.business_purpose)
          [] k = "2" -> Truthy(intake.decision_classification)
          [] k = "3" -> PyOr(intake.approved_data_types, intake.prohibited_data_types)
          [] k = "4" -> /\ Truthy(intake.approving_authority)
                        /\ Truthy(intake.business_owner)
                        /\ Truthy(intake.technical_owner)
          [] k = "5" -> TRUE
          [] k = "6" -> TRUE
          [] k = "7" -> Cardinality(intake.risk_assessments) > 0
          [] k = "8" -> TRUE
          [] k = "9" -> TRUE
          [] k = "10" -> TRUE]

---------------------------------------------------------------------------
(* Calls of compute_section_completion on enumerated records *)

Texts == {None, Str(""), Str("x")}

\* the record states given to compute_section_completion: every combination
\* of empty and non-empty values of the columns a rule reads, with and
\* without readiness, artifacts and action items
CompletionRecords ==
    { IntakeObject(
        NewIntakeRow([system_name |-> sn, business_purpose |-> bp,
                      decision_classification |-> dc,
                      approved_data_types |-> adt, prohibited_data_types |-> pdt,
                      approving_authority |-> aa, business_owner |-> bo,
                      technical_owner |-> tow, readiness_status |-> rs]),
        rk, ar, ac) :
        sn \in Texts, bp \in Texts,
        dc \in {None, Str("informational")},
        adt \in {None, List(<<>>), List(<<"pii">>)},
        pdt \in {List(<<>>), List(<<"secrets">>)},
        aa \in Texts, bo \in {None, Str("x")}, tow \in Texts,
        rs \in {None, Str("not_ready")},
        rk \in SUBSET (1..MaxFindings),
        ar \in {{}, {1}}, ac \in {{}, {1}} }

InitCompletion ==
    /\ EmptyDb
    /\ req \in {[op |-> "compute_section_completion", intake |-> i] :
                   i \in CompletionRecords}
    /\ resp = Pending

CompletionCall ==
    /\ req.op = "compute_section_completion"
    /\ resp = Pending
    /\ resp' = Returned(compute_section_completion(req.intake))
    /\ UNCHANGED <<db, now, req>>

NextCompletion == CompletionCall

SpecCompletion == InitCompletion /\ [][NextCompletion]_vars

---------------------------------------------------------------------------
(* Claims about compute_section_completion (checked under SpecCompletion) *)

CompletionCallDone == req.op = "compute_section_completion" /\ resp # Pending

\* C5: section 1 is complete iff system_name and business_purpose are both
\* non-empty, section 2 iff decision_classification is set, section 3 iff
\* approved_data_types or prohibited_data_types has an entry, section 4 iff
\* approving_authority, business_owner and technical_owner are all non-empty,
\* section 7 iff the record has at least one risk finding.
C5_SectionRules ==
    CompletionCallDone =>
      LET i == req.intake
          m == resp.value
      IN  /\ resp.status = "returned"
          /\ m["1"] <=> (i.system_name \notin {None, Str("")}
                           /\ i.business_purpose \notin {None, Str("")})
          /\ m["2"] <=> (i.decision_classification \notin {None, Str("")})
          /\ m["3"] <=> (\/ i.approved_data_types \notin {None, List(<<>>)}
                         \/ i.prohibited_data_types \notin {None, List(<<>>)})
          /\ m["4"] <=> (/\ i.approving_authority \notin {None, Str("")}
                         /\ i.business_owner \notin {None, Str("")}
                         /\ i.technical_owner \notin {None, Str("")})
          /\ m["7"] <=> (i.risk_assessments # {})

\* C5 witness: the literal case system_name = "x", business_purpose = "" with
\* one risk finding: section 1 false, section 7 true
C5_Witness ==
    /\ CompletionCallDone
    /\ req.intake.system_name = Str("x")
    /\ req.intake.business_purpose = Str("")
    /\ req.intake.risk_assessments = {1}
    /\ resp.value["1"] = FALSE
    /\ resp.value["7"] = TRUE

---------------------------------------------------------------------------
(* src/app/schemas.py: IntakeSectionUpdate *)

\* the section models of IntakeSectionUpdate and their fields
SectionSchema ==
    [section_1 |-> Section1Columns, section_2 |-> Section2Columns,
     section_3 |-> Section3Columns, section_4 |-> Section4Columns,
     section_5 |-> Section5Columns, section_6 |-> Section6Columns,
     section_9 |-> Section9Columns]

SectionNames   == DOMAIN SectionSchema
TopLevelFields == {"identified_gaps", "current_step"}
UpdateKeys     == SectionNames \cup TopLevelFields

\* a pydantic model instance: a value for every field of the schema (None
\* where the request gave none) and model_fields_set
Model(values, fields_set) == [t |-> "model", v |-> values, set |-> fields_set]

\* validation of one section of the body: null stays None, an object becomes
\* the section's model
ParseSection(section, b) ==
    IF b.t = "dict"
    THEN Model([f \in SectionSchema[section] |->
                   IF f \in DOMAIN b.v THEN b.v[f] ELSE None], DOMAIN b.v)
    ELSE b

\* IntakeSectionUpdate(**body): validation of a JSON request body
IntakeSectionUpdate(body) ==
    Model([k \in UpdateKeys |->
              IF k \notin DOMAIN body THEN None
              ELSE IF k \in SectionNames THEN ParseSection(k, body[k])
              ELSE body[k]],
          DOMAIN body)

\* model.model_dump() without exclude_unset: every field of the schema
RECURSIVE model_dump_include_unset(_)
model_dump_include_unset(m) ==
    [k \in DOMAIN m.v |->
        IF m.v[k].t = "model" THEN Dict(model_dump_include_unset(m.v[k])) ELSE m.v[k]]

\* model.model_dump(exclude_unset=True): only the fields that were set,
\* nested models included
RECURSIVE model_dump(_)
model_dump(m) ==
    [k \in m.set |->
        IF m.v[k].t = "model" THEN Dict(model_dump(m.v[k])) ELSE m.v[k]]

---------------------------------------------------------------------------
(* src/app/main.py: apply_section_updates *)

\* the mapped object after the loop of apply_section_updates, for the dumped
\* update_data.  No attribute is written by two keys of update_data, so
\* the order of the loop does not matter.
\* the sections of update_data whose branch at line 90 is taken
AppliedSections(update_data) ==
    {k \in DOMAIN update_data \ TopLevelFields :
        /\ Truthy(update_data[k])
        /\ update_data[k].t = "dict"}

\* the applied sections whose loop at line 92 assigns attribute a;
\* hasattr(intake, field) is the restriction to DOMAIN intake
SectionsWriting(update_data, a) ==
    {k \in AppliedSections(update_data) : a \in DOMAIN update_data[k].v}

MergeInto(intake, update_data) ==
    [a \in DOMAIN intake |->
        IF a \in TopLevelFields /\ a \in DOMAIN update_data
        THEN update_data[a]
        ELSE IF SectionsWriting(update_data, a) # {}
        THEN update_data[CHOOSE k \in SectionsWriting(update_data, a) : TRUE].v[a]
        ELSE intake[a]]

\* apply_section_updates with "if value is not None" before the setattr
apply_section_updates_skip_none(intake, updates) ==
    LET update_data == model_dump(updates)
        writers(a) == {k \in SectionsWriting(update_data, a) :
                          update_data[k].v[a] # None}
    IN  [a \in DOMAIN intake |->
            IF a \in TopLevelFields /\ a \in DOMAIN update_data
            THEN update_data[a]
            ELSE IF writers(a) # {}
            THEN update_data[CHOOSE k \in writers(a) : TRUE].v[a]
            ELSE intake[a]]

\* apply_section_updates that extends a list attribute with the supplied list
\* where the code replaces it
apply_section_updates_extend_lists(intake, updates) ==
    LET update_data == model_dump(updates)
        merged == MergeInto(intake, update_data)
    IN  [a \in DOMAIN intake |->
            IF /\ SectionsWriting(update_data, a) # {}
               /\ intake[a].t = "list"
               /\ merged[a].t = "list"
            THEN List(intake[a].v \o merged[a].v)
            ELSE merged[a]]

apply_section_updates(intake, updates) ==
    MergeInto(intake, model_dump(updates))

---------------------------------------------------------------------------
(* Calls of apply_section_updates on enumerated records and request bodies *)

\* values a request body may carry for a field (all pass validation)
FieldValues(f) ==
    CASE f = "system_name"             -> {None, Str(""), Str("Chatbot")}
      [] f = "business_purpose"        -> {None, Str(""), Str("triage")}
      [] f = "decision_classification" -> {None, Str("decision_support")}
      [] f = "approved_data_types"     -> {None, List(<<>>), List(<<"pii">>)}
      [] f = "prohibited_data_types"   -> {None, List(<<>>), List(<<"secrets">>)}
      [] f = "approving_authority"     -> {None, Str("cio")}
      [] f = "business_owner"          -> {None, Str(""), Str("ann")}
      [] f = "technical_owner"         -> {None, Str("bob")}
      [] f = "business_owner_email"    -> {None, Str("ann@corp")}
      [] f = "federal_contracts"       -> {None, Bool(TRUE), Bool(FALSE)}
      [] f = "usage_logging_enabled"   -> {None, Bool(TRUE)}
      [] f = "readiness_status"        -> {None, Str("approved")}
      [] f = "identified_gaps"         -> {None, List(<<>>), List(<<"no playbook">>)}
      [] f = "current_step"            -> {None, IntV(1), IntV(10)}

\* one key of a body: <<section, field, value>>, <<"", top-level field, value>>,
\* or a whole section given as null or as {}: <<section, "", value>>
BodyItems ==
    UNION {UNION {{<<sk, f, v>> : v \in FieldValues(f)} : f \in SectionSchema[sk]}
               : sk \in SectionNames}
      \cup UNION {{<<"", f, v>> : v \in FieldValues(f)} : f \in TopLevelFields}
      \cup {<<sk, "", v>> : sk \in SectionNames, v \in {None, Dict(EmptyMap)}}

\* no field is given twice, and a section given whole has no fields beside it
ConsistentItems(I) ==
    \A x \in I : \A y \in I :
        x # y => /\ <<x[1], x[2]>> # <<y[1], y[2]>>
                 /\ (x[1] # "" /\ x[1] = y[1]) => (x[2] # "" /\ y[2] # "")

RECURSIVE ItemSetsUpTo(_)
ItemSetsUpTo(n) ==
    IF n = 0 THEN {{}}
    ELSE LET smaller == ItemSetsUpTo(n - 1)
         IN  smaller \cup {I \cup {x} : I \in smaller, x \in BodyItems}

\* the JSON body made of a set of items
BodyOf(I) ==
    [k \in {x[1] : x \in {y \in I : y[1] # ""}} \cup {x[2] : x \in {y \in I : y[1] = ""}} |->
        IF k \in TopLevelFields
        THEN (CHOOSE x \in I : x[1] = "" /\ x[2] = k)[3]
        ELSE IF \E x \in I : x[1] = k /\ x[2] = ""
        THEN (CHOOSE x \in I : x[1] = k /\ x[2] = "")[3]
        ELSE Dict([f \in {x[2] : x \in {y \in I : y[1] = k}} |->
                      (CHOOSE x \in I : x[1] = k /\ x[2] = f)[3]])]

UpdateBodies == {BodyOf(I) : I \in {J \in ItemSetsUpTo(MaxSetKeys) : ConsistentItems(J)}}

AllTrue == [k \in SectionKeys |-> TRUE]

\* the records the merge is applied to: one as intake_new creates it, and a
\* submitted one whose every field holds a value no request body carries
FreshRecord ==
    IntakeObject(NewIntakeRow([system_name |-> Str("")]), {}, {}, {})

FilledRecord ==
    IntakeObject(
      [c \in IntakeColumns |->
         CASE c \in {"approved_data_types", "prohibited_data_types", "identified_gaps"}
                  -> List(<<"old">>)
           [] c \in {"federal_contracts", "usage_logging_enabled"} -> Bool(TRUE)
           [] c = "intake_status"      -> Str("submitted")
           [] c = "current_step"       -> IntV(4)
           [] c = "section_completion" -> Dict(AllTrue)
           [] c = "computed_risk_tier" -> None
           [] c \in {"submitted_at", "last_autosave_at"} -> IntV(1)
           [] OTHER -> Str("old")],
      {1}, {1}, {1})

MergeRecords == {FreshRecord, FilledRecord}

InitMerge ==
    /\ EmptyDb
    /\ req \in {[op |-> "apply_section_updates", intake |-> i, body |-> b] :
                   i \in MergeRecords, b \in UpdateBodies}
    /\ resp = Pending

\* the body is validated into an IntakeSectionUpdate and merged into the record
MergeCall ==
    /\ req.op = "apply_section_updates"
    /\ resp = Pending
    /\ resp' = Returned(apply_section_updates(req.intake, IntakeSectionUpdate(req.body)))
    /\ UNCHANGED <<db, now, req>>

NextMerge == MergeCall

SpecMerge == InitMerge /\ [][NextMerge]_vars

---------------------------------------------------------------------------
(* Claims about apply_section_updates (checked under SpecMerge) *)

MergeCallDone == req.op = "apply_section_updates" /\ resp # Pending

\* the sections present in a request body (as an object, not null)
PresentSections(body) == {k \in DOMAIN body \cap SectionNames : body[k].t = "dict"}

\* the fields explicitly present in a request body
SuppliedFields(body) ==
    (DOMAIN body \cap TopLevelFields)
      \cup UNION {DOMAIN body[k].v : k \in PresentSections(body)}

\* C9: the merge leaves unchanged every field of a section absent from the
\* update and every field absent within a present section (current_step and
\* identified_gaps included when omitted), and every other attribute of the
\* record.
C9_MergeFrame ==
    MergeCallDone =>
      /\ resp.status = "returned"
      /\ DOMAIN resp.value = DOMAIN req.intake
      /\ \A a \in DOMAIN req.intake \ SuppliedFields(req.body) :
           resp.value[a] = req.intake[a]

\* C9 witness: an update of section 1 only, on the filled record, has left the
\* section-3 fields, current_step and identified_gaps as they were
C9_Witness ==
    /\ MergeCallDone
    /\ req.intake = FilledRecord
    /\ DOMAIN req.body = {"section_1"}
    /\ req.body.section_1 = Dict([system_name |-> Str("Chatbot")])
    /\ resp.value.system_name = Str("Chatbot")
    /\ resp.value.approved_data_types = List(<<"old">>)
    /\ resp.value.prohibited_data_types = List(<<"old">>)
    /\ resp.value.current_step = IntV(4)
    /\ resp.value.identified_gaps = List(<<"old">>)

\* C10: every field explicitly present in a present section is set to the
\* supplied value, an explicit null or empty list included (also when every
\* supplied field of the section is null or empty), and the other fields of
\* that section keep their values.
C10_MergeOverwrite ==
    MergeCallDone =>
      \A k \in PresentSections(req.body) :
        /\ \A f \in DOMAIN req.body[k].v : resp.value[f] = req.body[k].v[f]
        /\ \A g \in SectionSchema[k] \ DOMAIN req.body[k].v :
             resp.value[g] = req.intake[g]

\* C10 witness: section 3 supplied with approved_data_types = [] and
\* section 4 with technical_owner = null, on the filled record: exactly those
\* fields are cleared
C10_Witness ==
    /\ MergeCallDone
    /\ req.intake = FilledRecord
    /\ req.body = [section_3 |-> Dict([approved_data_types |-> List(<<>>)]),
                   section_4 |-> Dict([technical_owner |-> None])]
    /\ resp.value.approved_data_types = List(<<>>)
    /\ resp.value.prohibited_data_types = List(<<"old">>)
    /\ resp.value.technical_owner = None
    /\ resp.value.business_owner = Str("old")

---------------------------------------------------------------------------
(* The same update applied a second time to the record it has updated *)

\* apply_section_updates mutates the mapped object in place: a second call
\* with the same update works on the result of the first
MergeAgain ==
    /\ req.op = "apply_section_updates"
    /\ resp # Pending
    /\ req' = [op |-> "apply_section_updates_again", intake |-> req.intake,
               body |-> req.body, once |-> resp.value]
    /\ resp' = Returned(apply_section_updates(resp.value, IntakeSectionUpdate(req.body)))
    /\ UNCHANGED <<db, now>>

NextMergeTwice == MergeCall \/ MergeAgain

SpecMergeTwice == InitMerge /\ [][NextMergeTwice]_vars

MergeAgainDone == req.op = "apply_section_updates_again"

\* C11: merge idempotence: for every record and every update, the record
\* after the same update has been applied twice has the field values of the
\* record after it was applied once, and compute_section_completion gives
\* the same map on both.
C11_MergeIdempotent ==
    MergeAgainDone =>
      /\ resp.status = "returned"
      /\ resp.value = req.once
      /\ compute_section_completion(resp.value) = compute_section_completion(req.once)

\* C11 witness: an update that changed the filled record (a list replaced, a
\* field cleared, the cursor moved) applied a second time
C11_Witness ==
    /\ MergeAgainDone
    /\ req.intake = FilledRecord
    /\ req.once # req.intake
    /\ \E k \in PresentSections(req.body) : "approved_data_types" \in DOMAIN req.body[k].v
    /\ req.once.approved_data_types = List(<<"pii">>)
    /\ resp.value.approved_data_types = List(<<"pii">>)
    /\ compute_section_completion(req.once) # compute_section_completion(req.intake)

---------------------------------------------------------------------------
(* src/app/main.py: the intake API over the database *)

IntakeIds == 1..MaxIntakes
KidIds    == 1..MaxKids

Http(code) == [status |-> "http", code |-> code]

\* rows of a child table that belong to an intake
ChildrenOf(table, intake_id) ==
    {k \in DOMAIN table : table[k].intake_id = intake_id}

\* db.query(Intake).filter(Intake.id == intake_id).first(), with the
\* relationship collections the mapped object loads
LoadIntake(intake_id) ==
    IntakeObject(intakes[intake_id],
                 ChildrenOf(risk_assessments, intake_id),
                 ChildrenOf(required_artifacts, intake_id),
                 ChildrenOf(action_items, intake_id))

\* a table without the rows K / with one more row
Without(table, K)    == [k \in DOMAIN table \ K |-> table[k]]
Insert(table, k, row) == [j \in DOMAIN table \cup {k} |-> IF j = k THEN row ELSE table[j]]

\* for field, value in update_data.items(): setattr(row, field, value)
SetAttrs(row, update_data) ==
    [a \in DOMAIN row |-> IF a \in DOMAIN update_data THEN update_data[a] ELSE row[a]]

\* validation of the body of a flat update schema (RiskAssessmentUpdate,
\* RequiredArtifactUpdate, ActionItemUpdate, UseCaseUpdate); keys that are
\* not fields of the schema are ignored
FlatUpdate(fields, body) ==
    Model([f \in fields |-> IF f \in DOMAIN body THEN body[f] ELSE None],
          DOMAIN body \cap fields)

\* POST /api/intakes (IntakeCreate: system_name has min_length 1)
create_intake(intake_data) ==
    /\ \E id \in IntakeIds \ DOMAIN intakes :
         intakes' = Insert(intakes, id,
                       NewIntakeRow([system_name |-> intake_data.system_name,
                                     business_owner |-> intake_data.business_owner,
                                     business_owner_email |-> intake_data.business_owner_email,
                                     intake_status |-> Str("draft"),
                                     current_step |-> IntV(1),
                                     section_completion |-> Dict(EmptyMap)]))
    /\ req' = [op |-> "create_intake"]
    /\ resp' = Http(201)
    /\ UNCHANGED <<usecases, risk_assessments, required_artifacts, action_items, now>>

\* GET /intake/new
intake_new ==
    /\ \E id \in IntakeIds \ DOMAIN intakes :
         intakes' = Insert(intakes, id,
                       NewIntakeRow([system_name |-> Str(""),
                                     intake_status |-> Str("draft"),
                                     current_step |-> IntV(1),
                                     section_completion |-> Dict(EmptyMap)]))
    /\ req' = [op |-> "intake_new"]
    /\ resp' = Http(303)
    /\ UNCHANGED <<usecases, risk_assessments, required_artifacts, action_items, now>>

\* intake_step without the check of the step number
intake_step_no_range_check(intake_id, step_num) ==
    /\ req' = [op |-> "intake_step", intake_id |-> intake_id, step_num |-> step_num]
    /\ IF intake_id \notin DOMAIN intakes
       THEN resp' = Http(404) /\ UNCHANGED intakes
       ELSE /\ intakes' = [intakes EXCEPT ![intake_id].current_step = IntV(step_num)]
            /\ resp' = Http(200)
    /\ UNCHANGED <<usecases, risk_assessments, required_artifacts, action_items, now>>

\* GET /intake/{intake_id}/step/{step_num}
intake_step(intake_id, step_num) ==
    /\ req' = [op |-> "intake_step", intake_id |-> intake_id, step_num |-> step_num]
    /\ IF step_num < 1 \/ step_num > 10
       THEN resp' = Http(400) /\ UNCHANGED intakes
       ELSE IF intake_id \notin DOMAIN intakes
       THEN resp' = Http(404) /\ UNCHANGED intakes
       ELSE /\ intakes' = [intakes EXCEPT ![intake_id].current_step = IntV(step_num)]
            /\ resp' = Http(200)
    /\ UNCHANGED <<usecases, risk_assessments, required_artifacts, action_items, now>>

\* update_intake without the recomputation of section_completion
update_intake_no_recompute(intake_id, body) ==
    /\ req' = [op |-> "update_intake", intake_id |-> intake_id]
    /\ IF intake_id \notin DOMAIN intakes
       THEN resp' = Http(404) /\ UNCHANGED <<intakes, now>>
       ELSE /\ now <= MaxClock
            /\ LET merged == apply_section_updates(LoadIntake(intake_id),
                                                   IntakeSectionUpdate(body))
                   saved  == [merged EXCEPT !.last_autosave_at = IntV(now)]
               IN  intakes' = [intakes EXCEPT ![intake_id] = RowOf(saved)]
            /\ now' = now + 1
            /\ resp' = Http(200)
    /\ UNCHANGED <<usecases, risk_assessments, required_artifacts, action_items>>

\* update_intake computing section_completion before the merge
update_intake_compute_before_merge(intake_id, body) ==
    /\ req' = [op |-> "update_intake", intake_id |-> intake_id]
    /\ IF intake_id \notin DOMAIN intakes
       THEN resp' = Http(404) /\ UNCHANGED <<intakes, now>>
       ELSE /\ now <= MaxClock
            /\ LET merged == apply_section_updates(LoadIntake(intake_id),
                                                   IntakeSectionUpdate(body))
                   saved  == [merged EXCEPT
                                !.section_completion =
                                    Dict(compute_section_completion(LoadIntake(intake_id))),
                                !.last_autosave_at = IntV(now)]
               IN  intakes' = [intakes EXCEPT ![intake_id] = RowOf(saved)]
            /\ now' = now + 1
            /\ resp' = Http(200)
    /\ UNCHANGED <<usecases, risk_assessments, required_artifacts, action_items>>

\* update_intake that puts the record it saves back to draft
update_intake_reopens_draft(intake_id, body) ==
    /\ req' = [op |-> "update_intake", intake_id |-> intake_id]
    /\ IF intake_id \notin DOMAIN intakes
       THEN resp' = Http(404) /\ UNCHANGED <<intakes, now>>
       ELSE /\ now <= MaxClock
            /\ LET merged == apply_section_updates(LoadIntake(intake_id),
                                                   IntakeSectionUpdate(body))
                   saved  == [merged EXCEPT
                                !.section_completion =
                                    Dict(compute_section_completion(merged)),
                                !.last_autosave_at = IntV(now),
                                !.intake_status = Str("draft")]
               IN  intakes' = [intakes EXCEPT ![intake_id] = RowOf(saved)]
            /\ now' = now + 1
            /\ resp' = Http(200)
    /\ UNCHANGED <<usecases, risk_assessments, required_artifacts, action_items>>

\* update_intake that refuses to edit a submitted intake
update_intake_rejects_submitted(intake_id, body) ==
    /\ req' = [op |-> "update_intake", intake_id |-> intake_id]
    /\ IF intake_id \notin DOMAIN intakes
       THEN resp' = Http(404) /\ UNCHANGED <<intakes, now>>
       ELSE IF intakes[intake_id].intake_status = Str("submitted")
       THEN resp' = Http(409) /\ UNCHANGED <<intakes, now>>
       ELSE /\ now <= MaxClock
            /\ LET merged == apply_section_updates(LoadIntake(intake_id),
                                                   IntakeSectionUpdate(body))
                   saved  == [merged EXCEPT
                                !.section_completion =
                                    Dict(compute_section_completion(merged)),
                                !.last_autosave_at = IntV(now)]
               IN  intakes' = [intakes EXCEPT ![intake_id] = RowOf(saved)]
            /\ now' = now + 1
            /\ resp' = Http(200)
    /\ UNCHANGED <<usecases, risk_assessments, required_artifacts, action_items>>

\* PATCH /api/intakes/{intake_id} (autosave)
update_intake(intake_id, body) ==
    /\ req' = [op |-> "update_intake", intake_id |-> intake_id]
    /\ IF intake_id \notin DOMAIN intakes
       THEN resp' = Http(404) /\ UNCHANGED <<intakes, now>>
       ELSE /\ now <= MaxClock
            /\ LET merged == apply_section_updates(LoadIntake(intake_id),
                                                   IntakeSectionUpdate(body))
                   saved  == [merged EXCEPT
                                !.section_completion =
                                    Dict(compute_section_completion(merged)),
                                !.last_autosave_at = IntV(now)]
               IN  intakes' = [intakes EXCEPT ![intake_id] = RowOf(saved)]
            /\ now' = now + 1
            /\ resp' = Http(200)
    /\ UNCHANGED <<usecases, risk_assessments, required_artifacts, action_items>>

\* submit_intake without the submitted_at stamp
submit_intake_no_stamp(intake_id) ==
    /\ req' = [op |-> "submit_intake", intake_id |-> intake_id]
    /\ IF intake_id \notin DOMAIN intakes
       THEN resp' = Http(404) /\ UNCHANGED intakes
       ELSE /\ intakes' = [intakes EXCEPT ![intake_id].intake_status = Str("submitted")]
            /\ resp' = Http(200)
    /\ UNCHANGED <<usecases, risk_assessments, required_artifacts, action_items, now>>

\* POST /api/intakes/{intake_id}/submit
submit_intake(intake_id) ==
    /\ req' = [op |-> "submit_intake", intake_id |-> intake_id]
    /\ IF intake_id \notin DOMAIN intakes
       THEN resp' = Http(404) /\ UNCHANGED <<intakes, now>>
       ELSE /\ now <= MaxClock
            /\ intakes' = [intakes EXCEPT ![intake_id].intake_status = Str("submitted"),
                                          ![intake_id].submitted_at = IntV(now)]
            /\ now' = now + 1
            /\ resp' = Http(200)
    /\ UNCHANGED <<usecases, risk_assessments, required_artifacts, action_items>>

\* delete_intake that removes the intake row alone
delete_intake_no_cascade(intake_id) ==
    /\ req' = [op |-> "delete_intake", intake_id |-> intake_id, cascaded |-> 0]
    /\ IF intake_id \notin DOMAIN intakes
       THEN resp' = Http(404) /\ UNCHANGED db
       ELSE /\ intakes' = Without(intakes, {intake_id})
            /\ UNCHANGED <<risk_assessments, required_artifacts, action_items>>
            /\ resp' = Http(204)
    /\ UNCHANGED <<usecases, now>>

\* DELETE /api/intakes/{intake_id}; the relationships cascade "all, delete-orphan"
delete_intake(intake_id) ==
    /\ req' = [op |-> "delete_intake", intake_id |-> intake_id,
               cascaded |-> Cardinality(ChildrenOf(risk_assessments, intake_id))
                            + Cardinality(ChildrenOf(required_artifacts, intake_id))
                            + Cardinality(ChildrenOf(action_items, intake_id))]
    /\ IF intake_id \notin DOMAIN intakes
       THEN resp' = Http(404) /\ UNCHANGED db
       ELSE /\ intakes' = Without(intakes, {intake_id})
            /\ risk_assessments' =
                 Without(risk_assessments, ChildrenOf(risk_assessments, intake_id))
            /\ required_artifacts' =
                 Without(required_artifacts, ChildrenOf(required_artifacts, intake_id))
            /\ action_items' =
                 Without(action_items, ChildrenOf(action_items, intake_id))
            /\ resp' = Http(204)
    /\ UNCHANGED <<usecases, now>>

\* POST /api/intakes/{intake_id}/risks
create_risk(intake_id, risk_data) ==
    /\ req' = [op |-> "create_risk", intake_id |-> intake_id]
    /\ IF intake_id \notin DOMAIN intakes
       THEN resp' = Http(404) /\ UNCHANGED risk_assessments
       ELSE /\ \E id \in KidIds \ DOMAIN risk_assessments :
                 risk_assessments' =
                   Insert(risk_assessments, id, [intake_id |-> intake_id] @@ risk_data)
            /\ resp' = Http(201)
    /\ UNCHANGED <<usecases, intakes, required_artifacts, action_items, now>>

\* update_risk that looks the finding up by its own id only
update_risk_any_parent(intake_id, risk_id, body) ==
    /\ req' = [op |-> "update_risk", intake_id |-> intake_id, risk_id |-> risk_id]
    /\ IF risk_id \notin DOMAIN risk_assessments
       THEN resp' = Http(404) /\ UNCHANGED risk_assessments
       ELSE /\ risk_assessments' =
                 [risk_assessments EXCEPT ![risk_id] =
                    SetAttrs(@, model_dump(FlatUpdate({"risk_description", "is_mitigated"},
                                                      body)))]
            /\ resp' = Http(200)
    /\ UNCHANGED <<usecases, intakes, required_artifacts, action_items, now>>

\* PATCH /api/intakes/{intake_id}/risks/{risk_id}
update_risk(intake_id, risk_id, body) ==
    /\ req' = [op |-> "update_risk", intake_id |-> intake_id, risk_id |-> risk_id]
    /\ IF risk_id \notin ChildrenOf(risk_assessments, intake_id)
       THEN resp' = Http(404) /\ UNCHANGED risk_assessments
       ELSE /\ risk_assessments' =
                 [risk_assessments EXCEPT ![risk_id] =
                    SetAttrs(@, model_dump(FlatUpdate({"risk_description", "is_mitigated"},
                                                      body)))]
            /\ resp' = Http(200)
    /\ UNCHANGED <<usecases, intakes, required_artifacts, action_items, now>>

\* DELETE /api/intakes/{intake_id}/risks/{risk_id}
delete_risk(intake_id, risk_id) ==
    /\ req' = [op |-> "delete_risk", intake_id |-> intake_id, risk_id |-> risk_id]
    /\ IF risk_id \notin ChildrenOf(risk_assessments, intake_id)
       THEN resp' = Http(404) /\ UNCHANGED risk_assessments
       ELSE /\ risk_assessments' = Without(risk_assessments, {risk_id})
            /\ resp' = Http(204)
    /\ UNCHANGED <<usecases, intakes, required_artifacts, action_items, now>>

\* POST /api/intakes/{intake_id}/artifacts
create_artifact(intake_id, artifact_data) ==
    /\ req' = [op |-> "create_artifact", intake_id |-> intake_id]
    /\ IF intake_id \notin DOMAIN intakes
       THEN resp' = Http(404) /\ UNCHANGED required_artifacts
       ELSE /\ \E id \in KidIds \ DOMAIN required_artifacts :
                 required_artifacts' =
                   Insert(required_artifacts, id, [intake_id |-> intake_id] @@ artifact_data)
            /\ resp' = Http(201)
    /\ UNCHANGED <<usecases, intakes, risk_assessments, action_items, now>>

\* PATCH /api/intakes/{intake_id}/artifacts/{artifact_id}
update_artifact(intake_id, artifact_id, body) ==
    /\ req' = [op |-> "update_artifact", intake_id |-> intake_id, artifact_id |-> artifact_id]
    /\ IF artifact_id \notin ChildrenOf(required_artifacts, intake_id)
       THEN resp' = Http(404) /\ UNCHANGED required_artifacts
       ELSE /\ required_artifacts' =
                 [required_artifacts EXCEPT ![artifact_id] =
                    SetAttrs(@, model_dump(FlatUpdate({"artifact_name", "status"}, body)))]
            /\ resp' = Http(200)
    /\ UNCHANGED <<usecases, intakes, risk_assessments, action_items, now>>

\* DELETE /api/intakes/{intake_id}/artifacts/{artifact_id}
delete_artifact(intake_id, artifact_id) ==
    /\ req' = [op |-> "delete_artifact", intake_id |-> intake_id, artifact_id |-> artifact_id]
    /\ IF artifact_id \notin ChildrenOf(required_artifacts, intake_id)
       THEN resp' = Http(404) /\ UNCHANGED required_artifacts
       ELSE /\ required_artifacts' = Without(required_artifacts, {artifact_id})
            /\ resp' = Http(204)
    /\ UNCHANGED <<usecases, intakes, risk_assessments, action_items, now>>

\* POST /api/intakes/{intake_id}/actions (status and completed_at take the
\* column defaults)
create_action(intake_id, action_data) ==
    /\ req' = [op |-> "create_action", intake_id |-> intake_id]
    /\ IF intake_id \notin DOMAIN intakes
       THEN resp' = Http(404) /\ UNCHANGED action_items
       ELSE /\ \E id \in KidIds \ DOMAIN action_items :
                 action_items' =
                   Insert(action_items, id,
                          [intake_id |-> intake_id, status |-> Str("pending"),
                           completed_at |-> None] @@ action_data)
            /\ resp' = Http(201)
    /\ UNCHANGED <<usecases, intakes, risk_assessments, required_artifacts, now>>

\* update_action stamping completed_at whenever the payload sets completed
update_action_always_stamp(intake_id, action_id, body) ==
    /\ req' = [op |-> "update_action", intake_id |-> intake_id, action_id |-> action_id]
    /\ IF action_id \notin ChildrenOf(action_items, intake_id)
       THEN resp' = Http(404) /\ UNCHANGED <<action_items, now>>
       ELSE LET action_update == FlatUpdate({"action_description", "status"}, body)
                action == SetAttrs(action_items[action_id], model_dump(action_update))
            IN  /\ IF action_update.v.status = Str("completed")
                   THEN /\ now <= MaxClock
                        /\ action_items' =
                             [action_items EXCEPT ![action_id] =
                                [action EXCEPT !.completed_at = IntV(now)]]
                        /\ now' = now + 1
                   ELSE /\ action_items' = [action_items EXCEPT ![action_id] = action]
                        /\ UNCHANGED now
                /\ resp' = Http(200)
    /\ UNCHANGED <<usecases, intakes, risk_assessments, required_artifacts>>

\* PATCH /api/intakes/{intake_id}/actions/{action_id}
update_action(intake_id, action_id, body) ==
    /\ req' = [op |-> "update_action", intake_id |-> intake_id, action_id |-> action_id]
    /\ IF action_id \notin ChildrenOf(action_items, intake_id)
       THEN resp' = Http(404) /\ UNCHANGED <<action_items, now>>
       ELSE LET action_update == FlatUpdate({"action_description", "status"}, body)
                action == SetAttrs(action_items[action_id], model_dump(action_update))
            IN  /\ IF action_update.v.status = Str("completed")
                        /\ action.completed_at = None
                   THEN /\ now <= MaxClock
                        /\ action_items' =
                             [action_items EXCEPT ![action_id] =
                                [action EXCEPT !.completed_at = IntV(now)]]
                        /\ now' = now + 1
                   ELSE /\ action_items' = [action_items EXCEPT ![action_id] = action]
                        /\ UNCHANGED now
                /\ resp' = Http(200)
    /\ UNCHANGED <<usecases, intakes, risk_assessments, required_artifacts>>

\* DELETE /api/intakes/{intake_id}/actions/{action_id}
delete_action(intake_id, action_id) ==
    /\ req' = [op |-> "delete_action", intake_id |-> intake_id, action_id |-> action_id]
    /\ IF action_id \notin ChildrenOf(action_items, intake_id)
       THEN resp' = Http(404) /\ UNCHANGED action_items
       ELSE /\ action_items' = Without(action_items, {action_id})
            /\ resp' = Http(204)
    /\ UNCHANGED <<usecases, intakes, risk_assessments, required_artifacts, now>>

---------------------------------------------------------------------------
(* The requests served *)

\* bodies of POST /api/intakes
IntakeCreates ==
    { [system_name |-> Str("Chatbot"), business_owner |-> None,
       business_owner_email |-> None],
      [system_name |-> Str("Chatbot"), business_owner |-> Str("ann"),
       business_owner_email |-> None] }

\* step numbers asked of the wizard, inside and outside 1..10
StepNumbers == {0, 1, 10, 11}

\* bodies of PATCH /api/intakes/{id}: the empty update, updates that complete
\* or empty a section, explicit nulls, sections given as null or {}
AutosaveBodies ==
    { EmptyMap,
      [section_1 |-> Dict([system_name |-> Str("Chatbot"),
                           business_purpose |-> Str("triage")]),
       section_2 |-> Dict([decision_classification |-> Str("decision_support")])],
      [section_1 |-> Dict([business_purpose |-> Str("")])],
      [section_3 |-> Dict([approved_data_types |-> List(<<"pii">>)]),
       section_4 |-> Dict([approving_authority |-> Str("cio"),
                           business_owner |-> Str("ann"),
                           technical_owner |-> Str("bob")])],
      [section_4 |-> Dict([technical_owner |-> None])],
      [current_step |-> None],
      [current_step |-> IntV(10), identified_gaps |-> List(<<"no playbook">>)],
      [section_9 |-> Dict([readiness_status |-> Str("approved")]),
       section_5 |-> None, section_6 |-> Dict(EmptyMap)] }

RiskCreates     == {[risk_description |-> Str("data exposure"), is_mitigated |-> Bool(FALSE)]}
RiskUpdates     == {[is_mitigated |-> Bool(TRUE)]}
ArtifactCreates == {[artifact_name |-> Str("incident playbook"), status |-> Str("pending")]}
ArtifactUpdates == {[status |-> Str("completed")]}
ActionCreates   == {[action_description |-> Str("assign owner")]}
ActionUpdates   == {[status |-> Str("completed")], [status |-> Str("pending")],
                    [action_description |-> Str("assign owner")]}

Init ==
    /\ EmptyDb
    /\ req = [op |-> "none"]
    /\ resp = Pending

Next ==
    \/ \E d \in IntakeCreates : create_intake(d)
    \/ intake_new
    \/ \E i \in IntakeIds, n \in StepNumbers : intake_step(i, n)
    \/ \E i \in IntakeIds, b \in AutosaveBodies : update_intake(i, b)
    \/ \E i \in IntakeIds : submit_intake(i)
    \/ \E i \in IntakeIds : delete_intake(i)
    \/ \E i \in IntakeIds, d \in RiskCreates : create_risk(i, d)
    \/ \E i \in IntakeIds, k \in KidIds, b \in RiskUpdates : update_risk(i, k, b)
    \/ \E i \in IntakeIds, k \in KidIds : delete_risk(i, k)
    \/ \E i \in IntakeIds, d \in ArtifactCreates : create_artifact(i, d)
    \/ \E i \in IntakeIds, k \in KidIds, b \in ArtifactUpdates : update_artifact(i, k, b)
    \/ \E i \in IntakeIds, k \in KidIds : delete_artifact(i, k)
    \/ \E i \in IntakeIds, d \in ActionCreates : create_action(i, d)
    \/ \E i \in IntakeIds, k \in KidIds, b \in ActionUpdates : update_action(i, k, b)
    \/ \E i \in IntakeIds, k \in KidIds : delete_action(i, k)

Spec == Init /\ [][Next]_vars

---------------------------------------------------------------------------
(* Claims on the stored completion map *)

StoredCompletion(intake_id) == intakes[intake_id].section_completion.v

\* the record has been saved by update_intake at least once
Autosaved(intake_id) == intakes[intake_id].last_autosave_at # None

\* C7 as stated: in every reachable state of an intake record, from its
\* creation by POST /api/intakes or GET /intake/new onward, the key set of the
\* stored completion map is exactly the ten section indices "1".."10".
C7_KeysFromCreation ==
    \A i \in DOMAIN intakes : DOMAIN StoredCompletion(i) = SectionKeys

\* C7 amended: in every reachable state of an intake record that update_intake
\* has saved at least once, whatever step views, child creations, updates and
\* deletions, submits and further autosaves followed, the key set of the stored
\* completion map is exactly the ten section indices "1".."10", none omitted.
C7_KeysOnceComputed ==
    \A i \in DOMAIN intakes :
        Autosaved(i) => DOMAIN StoredCompletion(i) = SectionKeys

\* an autosaved record that a step view moved to step 10, that was submitted
\* and has a risk finding
C7_Witness ==
    \E i \in DOMAIN intakes :
        /\ Autosaved(i)
        /\ intakes[i].current_step = IntV(10)
        /\ intakes[i].intake_status = Str("submitted")
        /\ ChildrenOf(risk_assessments, i) # {}
        /\ DOMAIN StoredCompletion(i) = SectionKeys

\* C8: the completion map stored by a save never drifts from the record: in
\* every reachable state, the stored section_completion of a saved record equals
\* compute_section_completion of the record's current fields and current risk
\* findings.
C8_StoredEqualsComputed ==
    \A i \in DOMAIN intakes :
        Autosaved(i) => StoredCompletion(i) = compute_section_completion(LoadIntake(i))

---------------------------------------------------------------------------
(* Claims on the autosave, the wizard cursor and the lifecycle *)

\* the last request served was a successful autosave
AutosaveDone == req.op = "update_intake" /\ resp = Http(200)

\* C12: immediately after every successful autosave the stored
\* section_completion equals compute_section_completion of the record as merged
\* by that request, and last_autosave_at is the time of that save (not null).
C12_CompletionAfterMerge ==
    AutosaveDone =>
      /\ req.intake_id \in DOMAIN intakes
      /\ StoredCompletion(req.intake_id)
           = compute_section_completion(LoadIntake(req.intake_id))
      /\ intakes[req.intake_id].last_autosave_at = IntV(now - 1)

\* C12 witness: the first autosave of a record set decision_classification,
\* which no creation sets: the stored map has section 2 true, which the map of
\* the record before the merge has not
C12_Witness ==
    /\ AutosaveDone
    /\ intakes[req.intake_id].last_autosave_at = IntV(1)
    /\ intakes[req.intake_id].decision_classification = Str("decision_support")
    /\ StoredCompletion(req.intake_id)["2"] = TRUE
    /\ StoredCompletion(req.intake_id)["3"] = FALSE

\* C13: the wizard cursor current_step of every intake is an integer within
\* 1..10 in every reachable state.
C13_CursorInRange ==
    \A i \in DOMAIN intakes :
        /\ intakes[i].current_step.t = "int"
        /\ intakes[i].current_step.v \in 1..10

\* the step just taken served a submit request on an existing intake
SubmitStep == req'.op = "submit_intake" /\ resp' = Http(200)

\* C14: a submit request on an intake whose status is not draft changes neither
\* intake_status nor submitted_at; a submit from draft sets the status to
\* submitted and stamps submitted_at.
C14_SubmitFromDraftOnly ==
    [][SubmitStep =>
         IF intakes[req'.intake_id].intake_status = Str("draft")
         THEN /\ intakes'[req'.intake_id].intake_status = Str("submitted")
              /\ intakes'[req'.intake_id].submitted_at = IntV(now)
         ELSE /\ intakes'[req'.intake_id].intake_status
                    = intakes[req'.intake_id].intake_status
              /\ intakes'[req'.intake_id].submitted_at
                    = intakes[req'.intake_id].submitted_at]_vars

\* C15: once an intake's status is submitted no operation returns it to draft:
\* the only status change a step makes to a record is draft -> submitted.
C15_LifecycleMonotonic ==
    [][\A i \in DOMAIN intakes \cap DOMAIN intakes' :
          \/ intakes'[i].intake_status = intakes[i].intake_status
          \/ /\ intakes[i].intake_status = Str("draft")
             /\ intakes'[i].intake_status = Str("submitted")]_vars

\* C15 witness: a record submitted at instant 1 and autosaved at instant 2,
\* with a child row, is still submitted
C15_Witness ==
    \E i \in DOMAIN intakes :
        /\ intakes[i].intake_status = Str("submitted")
        /\ intakes[i].submitted_at = IntV(1)
        /\ intakes[i].last_autosave_at = IntV(2)
        /\ ChildrenOf(action_items, i) # {}

\* C18: in every reachable state in which an autosave has set the record's
\* data types (section 3), computed_risk_tier is one of low, medium, high.
C18_TierOnceDataTypesSet ==
    \A i \in DOMAIN intakes :
        (Autosaved(i) /\ Truthy(intakes[i].approved_data_types))
          => intakes[i].computed_risk_tier \in {Str("low"), Str("medium"), Str("high")}

---------------------------------------------------------------------------
(* src/app/main.py: the legacy use-case API.  Its handlers read and write   *)
(* the usecases table only, and no intake handler touches that table, so    *)
(* they are explored on their own.                                          *)

UseCaseIds == 1..MaxUseCases

\* columns of UseCase kept by the model; business_unit, purpose, model_type and
\* vendor are handled by every handler exactly as title and owner are
UseCaseColumns ==
    {"title", "owner", "data_types", "data_residency", "external_sharing",
     "risk_tier", "status"}

\* columns declared nullable=False
UseCaseNotNull ==
    {"title", "owner", "data_residency", "external_sharing", "risk_tier"}

\* fields of UseCaseUpdate (risk_tier is not one of them)
UseCaseUpdateFields == UseCaseColumns \ {"risk_tier"}

\* risk_fields of update_usecase
risk_fields == {"data_types", "data_residency", "external_sharing"}

\* db.commit() of a use-case row: the INSERT or UPDATE fails on a NULL in a
\* NOT NULL column
IntegrityError(row) == \E c \in UseCaseNotNull : row[c] = None

\* POST /usecases
create_usecase(usecase) ==
    /\ req' = [op |-> "create_usecase", calls |-> {"compute_risk_tier"}]
    /\ LET risk_tier == compute_risk_tier(usecase.data_types, usecase.data_residency,
                                          usecase.external_sharing)
       IN  \E id \in UseCaseIds \ DOMAIN usecases :
             usecases' = Insert(usecases, id,
                                [c \in UseCaseColumns |->
                                   IF c = "risk_tier" THEN Str(risk_tier) ELSE usecase[c]])
    /\ resp' = Http(201)
    /\ UNCHANGED <<intakes, risk_assessments, required_artifacts, action_items, now>>

\* update_usecase without the recomputation of risk_tier
update_usecase_no_recompute(usecase_id, body) ==
    /\ IF usecase_id \notin DOMAIN usecases
       THEN /\ req' = [op |-> "update_usecase", usecase_id |-> usecase_id,
                       body |-> body, calls |-> {}]
            /\ resp' = Http(404)
            /\ UNCHANGED usecases
       ELSE LET update_data == model_dump(FlatUpdate(UseCaseUpdateFields, body))
                usecase == SetAttrs(usecases[usecase_id], update_data)
            IN  /\ req' = [op |-> "update_usecase", usecase_id |-> usecase_id,
                           body |-> body, calls |-> {}]
                /\ IF IntegrityError(usecase)
                   THEN resp' = Http(500) /\ UNCHANGED usecases
                   ELSE /\ usecases' = [usecases EXCEPT ![usecase_id] = usecase]
                        /\ resp' = Http(200)
    /\ UNCHANGED <<intakes, risk_assessments, required_artifacts, action_items, now>>

\* update_usecase recomputing risk_tier on every update
update_usecase_always_recompute(usecase_id, body) ==
    /\ IF usecase_id \notin DOMAIN usecases
       THEN /\ req' = [op |-> "update_usecase", usecase_id |-> usecase_id,
                       body |-> body, calls |-> {}]
            /\ resp' = Http(404)
            /\ UNCHANGED usecases
       ELSE LET update_data == model_dump(FlatUpdate(UseCaseUpdateFields, body))
                usecase == SetAttrs(usecases[usecase_id], update_data)
                risk_tier == compute_risk_tier(usecase.data_types, usecase.data_residency,
                                               usecase.external_sharing)
                saved == [usecase EXCEPT !.risk_tier = Str(risk_tier)]
            IN  /\ req' = [op |-> "update_usecase", usecase_id |-> usecase_id,
                           body |-> body, calls |-> {"compute_risk_tier"}]
                /\ IF risk_tier \in Exceptions \/ IntegrityError(saved)
                   THEN resp' = Http(500) /\ UNCHANGED usecases
                   ELSE /\ usecases' = [usecases EXCEPT ![usecase_id] = saved]
                        /\ resp' = Http(200)
    /\ UNCHANGED <<intakes, risk_assessments, required_artifacts, action_items, now>>

\* PATCH /usecases/{usecase_id}.  calls records the functions the handler
\* invoked.  An exception in compute_risk_tier, or in the commit, ends the
\* request with status 500 and nothing committed.
update_usecase(usecase_id, body) ==
    /\ IF usecase_id \notin DOMAIN usecases
       THEN /\ req' = [op |-> "update_usecase", usecase_id |-> usecase_id,
                       body |-> body, calls |-> {}]
            /\ resp' = Http(404)
            /\ UNCHANGED usecases
       ELSE LET update_data == model_dump(FlatUpdate(UseCaseUpdateFields, body))
                usecase == SetAttrs(usecases[usecase_id], update_data)
                recompute == risk_fields \cap DOMAIN update_data # {}
                risk_tier == compute_risk_tier(usecase.data_types, usecase.data_residency,
                                               usecase.external_sharing)
                saved == IF recompute THEN [usecase EXCEPT !.risk_tier = Str(risk_tier)]
                         ELSE usecase
            IN  /\ req' = [op |-> "update_usecase", usecase_id |-> usecase_id,
                           body |-> body,
                           calls |-> IF recompute THEN {"compute_risk_tier"} ELSE {}]
                /\ IF (recompute /\ risk_tier \in Exceptions) \/ IntegrityError(saved)
                   THEN resp' = Http(500) /\ UNCHANGED usecases
                   ELSE /\ usecases' = [usecases EXCEPT ![usecase_id] = saved]
                        /\ resp' = Http(200)
    /\ UNCHANGED <<intakes, risk_assessments, required_artifacts, action_items, now>>

\* DELETE /usecases/{usecase_id}
delete_usecase(usecase_id) ==
    /\ req' = [op |-> "delete_usecase", usecase_id |-> usecase_id, calls |-> {}]
    /\ IF usecase_id \notin DOMAIN usecases
       THEN resp' = Http(404) /\ UNCHANGED usecases
       ELSE usecases' = Without(usecases, {usecase_id}) /\ resp' = Http(204)
    /\ UNCHANGED <<intakes, risk_assessments, required_artifacts, action_items, now>>

\* bodies of POST /usecases (UseCaseCreate: data_residency non-empty,
\* external_sharing "yes" or "no")
UseCaseCreates ==
    { [title |-> Str("t1"), owner |-> Str("o1"), status |-> Str("pending"),
       data_types |-> List(d), data_residency |-> Str(r), external_sharing |-> Str(e)] :
        d \in {<<>>, <<S_pii>>, <<S_customer_data>>},
        r \in {S_us, S_international},
        e \in {S_yes, S_no} }

\* bodies of PATCH /usecases/{id}: unrelated fields only, each risk input
\* alone and together, explicit nulls, and a risk_tier key
UseCaseUpdateBodies ==
    { EmptyMap,
      [title |-> Str("t2"), owner |-> Str("o2"), status |-> Str("approved")],
      [status |-> None],
      [title |-> None],
      [risk_tier |-> Str("low")],
      [data_types |-> List(<<S_pii>>)],
      [data_types |-> None],
      [data_residency |-> Str(S_international)],
      [data_residency |-> None],
      [external_sharing |-> Str(S_yes)],
      [external_sharing |-> None],
      [title |-> Str("t2"), owner |-> Str("o2"), status |-> Str("approved"),
       data_types |-> List(<<S_customer_data>>)],
      [data_types |-> List(<<>>), data_residency |-> Str(S_us),
       external_sharing |-> Str(S_no), risk_tier |-> Str("high")] }

NextUseCase ==
    \/ \E u \in UseCaseCreates : create_usecase(u)
    \/ \E i \in UseCaseIds, b \in UseCaseUpdateBodies : update_usecase(i, b)
    \/ \E i \in UseCaseIds : delete_usecase(i)

SpecUseCase == Init /\ [][NextUseCase]_vars

---------------------------------------------------------------------------
(* Claims on the stored risk tier of a use case (checked under SpecUseCase) *)

ComputedTier(usecase_id) ==
    compute_risk_tier(usecases[usecase_id].data_types,
                      usecases[usecase_id].data_residency,
                      usecases[usecase_id].external_sharing)

\* C16: in every reachable state of a use-case record, after creation and any
\* sequence of partial updates, the stored risk_tier equals compute_risk_tier
\* of the record's current data_types, data_residency and external_sharing; a
\* risk_tier key in an update body does not set it.
C16_DerivedTier ==
    \A u \in DOMAIN usecases : usecases[u].risk_tier = Str(ComputedTier(u))

\* C16 witness: an update whose body carries risk inputs and risk_tier = "high"
\* has been committed, and the stored tier is the computed one, "low"
C16_Witness ==
    /\ req.op = "update_usecase"
    /\ resp = Http(200)
    /\ "risk_tier" \in DOMAIN req.body
    /\ req.body.risk_tier = Str("high")
    /\ usecases[req.usecase_id].data_types = List(<<>>)
    /\ usecases[req.usecase_id].risk_tier = Str("low")

\* the step just taken served an update of an existing use case
UpdateUseCaseStep ==
    /\ req'.op = "update_usecase"
    /\ req'.usecase_id \in DOMAIN usecases

\* C17: update_usecase invokes compute_risk_tier exactly when at least one of
\* data_types, data_residency, external_sharing is present in the update; an
\* update of other fields only leaves the stored risk_tier and the three risk
\* inputs unchanged.
C17_RecomputeTrigger ==
    [][UpdateUseCaseStep =>
         /\ ("compute_risk_tier" \in req'.calls)
              <=> (risk_fields \cap DOMAIN req'.body # {})
         /\ (risk_fields \cap DOMAIN req'.body = {}) =>
              \A c \in risk_fields \cup {"risk_tier"} :
                 usecases'[req'.usecase_id][c] = usecases[req'.usecase_id][c]]_vars

\* C17 witness: an update of title, owner and status only has been committed on
\* a high-tier use case without a call of compute_risk_tier
C17_Witness ==
    /\ req.op = "update_usecase"
    /\ resp = Http(200)
    /\ DOMAIN req.body = {"title", "owner", "status"}
    /\ req.calls = {}
    /\ usecases[req.usecase_id].owner = Str("o2")
    /\ usecases[req.usecase_id].risk_tier = Str("high")

---------------------------------------------------------------------------
(* Two update_intake requests served concurrently on one intake.  Each       *)
(* request has its own session (get_db): it loads the row, merges and        *)
(* stamps its mapped object in memory, then commits.                         *)

Sessions == {1, 2}

\* db.commit() of a session (app.db): the UPDATE writes the columns whose value
\* on the mapped object differs from the value the session loaded, and leaves
\* the other columns of the stored row as they are
SessionCommit(row, loaded, intake) ==
    [c \in DOMAIN row |-> IF intake[c] # loaded[c] THEN intake[c] ELSE row[c]]

\* a record that was autosaved with every field filled and has no child rows
SavedRow ==
    LET row == RowOf(FilledRecord)
    IN  [row EXCEPT !.section_completion =
            Dict(compute_section_completion(IntakeObject(row, {}, {}, {})))]

ConcurrentRows == {RowOf(FreshRecord), SavedRow}

\* request bodies of the two requests
ConcurrentBodies ==
    { [section_1 |-> Dict([system_name |-> Str("Chatbot"),
                           business_purpose |-> Str("triage")])],
      [section_1 |-> Dict([business_purpose |-> Str("")])],
      [section_2 |-> Dict([decision_classification |-> Str("decision_support")])],
      [section_3 |-> Dict([approved_data_types |-> List(<<"pii">>),
                           prohibited_data_types |-> List(<<>>)])],
      [section_4 |-> Dict([technical_owner |-> None])],
      [section_4 |-> Dict([approving_authority |-> Str("cio"),
                           business_owner |-> Str("ann"),
                           technical_owner |-> Str("bob")]),
       section_9 |-> Dict([readiness_status |-> Str("approved")])],
      [current_step |-> IntV(10)],
      [identified_gaps |-> List(<<"no playbook">>)] }

\* the two bodies touch different sections (and different top-level fields)
DifferentSections(b1, b2) == DOMAIN b1 \cap DOMAIN b2 = {}

InitConcurrent ==
    /\ usecases = EmptyMap
    /\ \E row \in ConcurrentRows :
         /\ intakes = Insert(EmptyMap, 1, row)
         /\ \E b1 \in ConcurrentBodies, b2 \in ConcurrentBodies :
              /\ DifferentSections(b1, b2)
              /\ req = [op |-> "update_intake", intake_id |-> 1, before |-> row,
                        sessions |->
                          [s \in Sessions |->
                             [pc |-> "load", body |-> IF s = 1 THEN b1 ELSE b2,
                              loaded |-> None, intake |-> None]]]
    /\ risk_assessments = EmptyMap
    /\ required_artifacts = EmptyMap
    /\ action_items = EmptyMap
    /\ now = 1
    /\ resp = Pending

\* intake = db.query(Intake).filter(Intake.id == intake_id).first()
update_intake_load(s) ==
    /\ req.op = "update_intake"
    /\ s \in DOMAIN req.sessions
    /\ req.sessions[s].pc = "load"
    /\ req' = [req EXCEPT !.sessions[s].pc = "merge",
                          !.sessions[s].loaded = intakes[req.intake_id],
                          !.sessions[s].intake = intakes[req.intake_id]]
    /\ UNCHANGED <<db, now, resp>>

\* apply_section_updates, section_completion and last_autosave_at on the
\* session's mapped object; the relationship collections are read when
\* compute_section_completion reaches them
update_intake_merge(s) ==
    /\ req.op = "update_intake"
    /\ s \in DOMAIN req.sessions
    /\ req.sessions[s].pc = "merge"
    /\ LET object == IntakeObject(req.sessions[s].intake,
                                  ChildrenOf(risk_assessments, req.intake_id),
                                  ChildrenOf(required_artifacts, req.intake_id),
                                  ChildrenOf(action_items, req.intake_id))
           merged == apply_section_updates(object,
                                           IntakeSectionUpdate(req.sessions[s].body))
           saved  == [merged EXCEPT
                        !.section_completion = Dict(compute_section_completion(merged)),
                        !.last_autosave_at = IntV(now)]
       IN  req' = [req EXCEPT !.sessions[s].pc = "commit",
                              !.sessions[s].intake = RowOf(saved)]
    /\ now' = now + 1
    /\ UNCHANGED <<db, resp>>

\* db.commit()
update_intake_commit(s) ==
    /\ req.op = "update_intake"
    /\ s \in DOMAIN req.sessions
    /\ req.sessions[s].pc = "commit"
    /\ intakes' = [intakes EXCEPT ![req.intake_id] =
                     SessionCommit(@, req.sessions[s].loaded, req.sessions[s].intake)]
    /\ req' = [req EXCEPT !.sessions[s].pc = "done"]
    /\ resp' = Http(200)
    /\ UNCHANGED <<usecases, risk_assessments, required_artifacts, action_items, now>>

NextConcurrent ==
    \/ \E s \in Sessions : update_intake_load(s)
    \/ \E s \in Sessions : update_intake_merge(s)
    \/ \E s \in Sessions : update_intake_commit(s)

SpecConcurrent == InitConcurrent /\ [][NextConcurrent]_vars

\* both requests have committed
BothDone == \A s \in Sessions : req.sessions[s].pc = "done"

\* the value a body supplies for a field it supplies
SuppliedValue(body, f) ==
    IF f \in TopLevelFields THEN body[f]
    ELSE body[CHOOSE k \in PresentSections(body) : f \in DOMAIN body[k].v].v[f]

\* the columns every autosave writes whatever its body
AutosaveStamps == {"section_completion", "last_autosave_at"}

---------------------------------------------------------------------------
(* Monotonicity of compute_risk_tier (checked under SpecRisk) *)

\* the order low < medium < high
TierRank(tier) == CASE tier = "low" -> 0 [] tier = "medium" -> 1 [] tier = "high" -> 2

\* C24: with low < medium < high, adding a label to the data types, changing
\* the residency from a non-risky to a risky value, or changing external
\* sharing from a value other than yes to yes never lowers the tier returned;
\* a list with a high-sensitivity label is high whatever the other inputs; the
\* tier is low only when no risk factor is present.
C24_TierMonotone ==
    RiskCallDone =>
      LET d == req.data_types.v
          r == req.data_residency.v
          e == req.external_sharing.v
      IN  /\ resp.status = "returned"
          /\ \A x \in RiskLabels :
               TierRank(compute_risk_tier(List(Append(d, x)), Str(r), Str(e)))
                 >= TierRank(resp.value)
          /\ lower(r) \notin HIGH_RISK_RESIDENCY =>
               \A r2 \in RiskResidencies :
                 lower(r2) \in HIGH_RISK_RESIDENCY =>
                   TierRank(compute_risk_tier(List(d), Str(r2), Str(e)))
                     >= TierRank(resp.value)
          /\ lower(e) # S_yes =>
               TierRank(compute_risk_tier(List(d), Str(r), Str(S_yes)))
                 >= TierRank(resp.value)
          /\ InClass(d, HIGH_RISK_DATA_TYPES) # {} => resp.value = "high"
          /\ resp.value = "low" =>
               /\ InClass(d, HIGH_RISK_DATA_TYPES \cup MEDIUM_RISK_DATA_TYPES) = {}
               /\ lower(r) \notin HIGH_RISK_RESIDENCY
               /\ lower(e) # S_yes

\* C24 witness: the call tier(["customer data"], "us", "no") has returned
\* medium; with "public data" added it is medium, with "PII" added it is high
C24_Witness ==
    /\ RiskCallDone
    /\ req.data_types.v = <<S_customer_data>>
    /\ req.data_residency.v = S_us
    /\ req.external_sharing.v = S_no
    /\ resp = Returned("medium")
    /\ compute_risk_tier(List(<<S_customer_data, S_public_data>>), Str(S_us), Str(S_no))
         = "medium"
    /\ compute_risk_tier(List(<<S_customer_data, <<"P","I","I">> >>), Str(S_us), Str(S_no))
         = "high"

---------------------------------------------------------------------------
(* Errors of the tier recomputation (checked under SpecUseCase) *)

\* the last request served was an update of an existing use case whose body
\* gives every field other than the three risk inputs a value or leaves it out
UpdateOfRiskInputsDone ==
    /\ req.op = "update_usecase"
    /\ req.usecase_id \in DOMAIN usecases
    /\ \A f \in DOMAIN req.body \ risk_fields : req.body[f] # None

\* C21: every update that passes validation, with data_types, data_residency
\* and external_sharing each absent, a valid value or explicitly null, on an
\* existing use case completes without an error in the tier recomputation and
\* leaves risk_tier in {low, medium, high}.
C21_UpdateNeverFails ==
    UpdateOfRiskInputsDone =>
      /\ resp = Http(200)
      /\ usecases[req.usecase_id].risk_tier \in {Str(t) : t \in Tiers}

---------------------------------------------------------------------------
(* The completion map after concurrent autosaves (checked under             *)
(* SpecConcurrent)                                                          *)

\* each request loaded the record before the other committed
BothLoadedBefore == \A s \in Sessions : req.sessions[s].loaded = req.before

\* C23: when two update_intake requests on one intake touching different
\* sections each load the record before the other commits, then after both
\* have committed the stored section_completion equals
\* compute_section_completion of the final stored fields.
C23_CompletionAfterConcurrentSaves ==
    (BothDone /\ BothLoadedBefore) =>
      StoredCompletion(req.intake_id)
        = compute_section_completion(LoadIntake(req.intake_id))

---------------------------------------------------------------------------
(* Frame conditions of the intake handlers (checked under Spec) *)

\* the step just taken served an autosave of an existing intake
AutosaveStep ==
    /\ req'.op = "update_intake"
    /\ req'.intake_id \in DOMAIN intakes

\* C22: update_intake on an intake, submitted or draft, is accepted, applies
\* the merge, recomputes the completion map and stamps last_autosave_at, and
\* leaves intake_status and submitted_at unchanged.
C22_AutosaveAfterSubmit ==
    [][AutosaveStep =>
         LET i == req'.intake_id
         IN  /\ resp' = Http(200)
             /\ intakes'[i].intake_status = intakes[i].intake_status
             /\ intakes'[i].submitted_at = intakes[i].submitted_at
             /\ intakes'[i].last_autosave_at = IntV(now)
             /\ intakes'[i].section_completion =
                  Dict(compute_section_completion(
                         IntakeObject(intakes'[i],
                                      ChildrenOf(risk_assessments', i),
                                      ChildrenOf(required_artifacts', i),
                                      ChildrenOf(action_items', i))))
             /\ \E b \in AutosaveBodies :
                  LET merged == apply_section_updates(LoadIntake(i),
                                                      IntakeSectionUpdate(b))
                  IN  \A c \in IntakeColumns \ AutosaveStamps :
                        intakes'[i][c] = merged[c]]_vars

\* C22 witness: an intake submitted at instant 1 has been autosaved at
\* instant 2: section 2 was merged and its completion recomputed, and the
\* intake is still submitted at instant 1
C22_Witness ==
    /\ AutosaveDone
    /\ intakes[req.intake_id].intake_status = Str("submitted")
    /\ intakes[req.intake_id].submitted_at = IntV(1)
    /\ intakes[req.intake_id].last_autosave_at = IntV(2)
    /\ intakes[req.intake_id].decision_classification = Str("decision_support")
    /\ StoredCompletion(req.intake_id)["2"] = TRUE

\* C25: in every reachable state of an intake, submitted_at is non-null if
\* and only if intake_status is submitted, and no operation other than
\* submit_intake on that intake writes or clears it.
C25_SubmittedAtIffSubmitted ==
    /\ [](\A i \in DOMAIN intakes :
            (intakes[i].submitted_at # None)
              <=> (intakes[i].intake_status = Str("submitted")))
    /\ [][\A i \in DOMAIN intakes \cap DOMAIN intakes' :
            intakes'[i].submitted_at # intakes[i].submitted_at
              => (req'.op = "submit_intake" /\ req'.intake_id = i)]_vars

\* C25 witness: an intake autosaved at instant 1 as a draft and submitted at
\* instant 2
C25_Witness ==
    \E i \in DOMAIN intakes :
        /\ intakes[i].last_autosave_at = IntV(1)
        /\ intakes[i].submitted_at = IntV(2)
        /\ intakes[i].intake_status = Str("submitted")

\* C28: an action item's completed_at is null at creation, is stamped by the
\* first update_action that sets status to completed, and once non-null is
\* never changed or cleared by a later operation.
C28_CompletedAtStampedOnce ==
    [][\A k \in DOMAIN action_items' :
         IF k \notin DOMAIN action_items
         THEN action_items'[k].completed_at = None
         ELSE IF action_items[k].completed_at # None
         THEN action_items'[k].completed_at = action_items[k].completed_at
         ELSE /\ action_items'[k].completed_at \in {None, IntV(now)}
              /\ action_items'[k].completed_at # None =>
                   (req'.op = "update_action"
                      /\ action_items'[k].status = Str("completed"))
              /\ (req'.op = "update_action"
                    /\ action_items'[k] # action_items[k]
                    /\ action_items'[k].status = Str("completed"))
                   => action_items'[k].completed_at = IntV(now)]_vars

\* C28 witness: an action item completed at instant 1 and moved back to
\* pending keeps its stamp
C28_Witness ==
    \E k \in DOMAIN action_items :
        /\ action_items[k].status = Str("pending")
        /\ action_items[k].completed_at = IntV(1)

\* C29: intake_step with a step number outside 1..10 is rejected and changes
\* no record; with a step number in 1..10 on an existing intake, in any
\* lifecycle status, it sets current_step to that number and leaves every other
\* field of the intake and every other record unchanged.
C29_StepViewFrame ==
    [][req'.op = "intake_step" =>
         IF req'.step_num \notin 1..10
         THEN resp' = Http(400) /\ UNCHANGED <<db, now>>
         ELSE IF req'.intake_id \notin DOMAIN intakes
         THEN resp' = Http(404) /\ UNCHANGED <<db, now>>
         ELSE /\ resp' = Http(200)
              /\ intakes' = [intakes EXCEPT
                               ![req'.intake_id].current_step = IntV(req'.step_num)]
              /\ UNCHANGED <<usecases, risk_assessments, required_artifacts,
                             action_items, now>>]_vars

\* C29 witness: step 10 viewed on an autosaved and submitted intake
C29_Witness ==
    /\ req.op = "intake_step"
    /\ req.step_num = 10
    /\ resp = Http(200)
    /\ intakes[req.intake_id].current_step = IntV(10)
    /\ intakes[req.intake_id].intake_status = Str("submitted")
    /\ Autosaved(req.intake_id)

---------------------------------------------------------------------------
(* Two intakes and their children: addressing and cascade (SpecFamilies) *)

\* ids of the two intakes the database holds at the start
FamilyIds == {1, 2}

\* step numbers asked of the wizard, outside and inside 1..10
FamilySteps   == {0, 1}
FamilyBodies  == {[section_2 |-> Dict([decision_classification |-> Str("decision_support")])]}
FamilyUpdates == {[status |-> Str("completed")]}

\* the database after two POST /api/intakes
InitFamilies ==
    /\ usecases = EmptyMap
    /\ intakes = [i \in FamilyIds |->
                    NewIntakeRow([system_name |-> Str("Chatbot"),
                                  business_owner |-> None,
                                  business_owner_email |-> None,
                                  intake_status |-> Str("draft"),
                                  current_step |-> IntV(1),
                                  section_completion |-> Dict(EmptyMap)])]
    /\ risk_assessments = EmptyMap
    /\ required_artifacts = EmptyMap
    /\ action_items = EmptyMap
    /\ now = 1
    /\ req = [op |-> "none"]
    /\ resp = Pending

NextFamilies ==
    \/ \E i \in FamilyIds, n \in FamilySteps : intake_step(i, n)
    \/ \E i \in FamilyIds, b \in FamilyBodies : update_intake(i, b)
    \/ \E i \in FamilyIds : submit_intake(i)
    \/ \E i \in FamilyIds : delete_intake(i)
    \/ \E i \in FamilyIds, d \in RiskCreates : create_risk(i, d)
    \/ \E i \in FamilyIds, k \in KidIds, b \in RiskUpdates : update_risk(i, k, b)
    \/ \E i \in FamilyIds, k \in KidIds : delete_risk(i, k)
    \/ \E i \in FamilyIds, d \in ArtifactCreates : create_artifact(i, d)
    \/ \E i \in FamilyIds, k \in KidIds, b \in ArtifactUpdates : update_artifact(i, k, b)
    \/ \E i \in FamilyIds, k \in KidIds : delete_artifact(i, k)
    \/ \E i \in FamilyIds, d \in ActionCreates : create_action(i, d)
    \/ \E i \in FamilyIds, k \in KidIds, b \in FamilyUpdates : update_action(i, k, b)
    \/ \E i \in FamilyIds, k \in KidIds : delete_action(i, k)

SpecFamilies == InitFamilies /\ [][NextFamilies]_vars

\* the operations addressed to an intake id, and among them the updates
\* and deletes of a child entry
ChildOps  == {"update_risk", "delete_risk", "update_artifact", "delete_artifact",
              "update_action", "delete_action"}
IntakeOps == {"intake_step", "update_intake", "submit_intake", "delete_intake",
              "create_risk", "create_artifact", "create_action"} \cup ChildOps

\* the child table and the child id a request addresses
ChildTable(r) ==
    IF r.op \in {"update_risk", "delete_risk"} THEN risk_assessments
    ELSE IF r.op \in {"update_artifact", "delete_artifact"} THEN required_artifacts
    ELSE action_items
ChildId(r) ==
    IF r.op \in {"update_risk", "delete_risk"} THEN r.risk_id
    ELSE IF r.op \in {"update_artifact", "delete_artifact"} THEN r.artifact_id
    ELSE r.action_id

\* the request addresses a child entry through an intake id that is not the
\* id of the entry's parent
WrongParent(r) ==
    /\ r.op \in ChildOps
    /\ ChildId(r) \in DOMAIN ChildTable(r)
    /\ ChildTable(r)[ChildId(r)].intake_id # r.intake_id

\* every entry of a child table that the step modified or deleted was
\* addressed through the id of its parent
OnlyThroughParent(table, table2) ==
    \A k \in DOMAIN table :
        (k \notin DOMAIN table2 \/ table2[k] # table[k])
          => (req'.op \in IntakeOps /\ req'.intake_id = table[k].intake_id)

\* the step answered with the outcome and changed no stored record
EndsUnchanged(outcome) == resp' = outcome /\ UNCHANGED <<db, now>>

\* C26: an intake operation addressed to a non-existent intake id, and an
\* update or delete of a child entry addressed through an intake id that is
\* not its parent's, ends in not-found and changes no stored record; a child
\* entry is modified or deleted only through its own parent's id.
C26_NotFoundUnchanged ==
    [][/\ req'.op \in IntakeOps =>
            /\ req'.intake_id \notin DOMAIN intakes => EndsUnchanged(Http(404))
            /\ WrongParent(req') => EndsUnchanged(Http(404))
       /\ OnlyThroughParent(risk_assessments, risk_assessments')
       /\ OnlyThroughParent(required_artifacts, required_artifacts')
       /\ OnlyThroughParent(action_items, action_items')]_vars

\* C26 as amended: intake_step checks the step number before it looks the
\* intake up, so a step number outside 1..10 on a non-existent intake ends in
\* the invalid-step outcome (400), still without changing a record; every
\* other case is as stated.
C26_NotFoundOrInvalidStepUnchanged ==
    [][/\ req'.op \in IntakeOps =>
            /\ req'.intake_id \notin DOMAIN intakes =>
                 IF req'.op = "intake_step" /\ req'.step_num \notin 1..10
                 THEN EndsUnchanged(Http(400))
                 ELSE EndsUnchanged(Http(404))
            /\ WrongParent(req') => EndsUnchanged(Http(404))
            /\ resp' = Http(404) => UNCHANGED <<db, now>>
       /\ OnlyThroughParent(risk_assessments, risk_assessments')
       /\ OnlyThroughParent(required_artifacts, required_artifacts')
       /\ OnlyThroughParent(action_items, action_items')]_vars

\* C26 witness: the risk finding of intake 2 was addressed through intake 1,
\* which exists; the answer is not-found and the finding is as created
C26_Witness ==
    /\ req.op = "update_risk"
    /\ req.intake_id \in DOMAIN intakes
    /\ WrongParent(req)
    /\ resp = Http(404)
    /\ risk_assessments[req.risk_id].is_mitigated = Bool(FALSE)

\* no child entry references an intake that is not stored
NoOrphans ==
    /\ \A k \in DOMAIN risk_assessments :
         risk_assessments[k].intake_id \in DOMAIN intakes
    /\ \A k \in DOMAIN required_artifacts :
         required_artifacts[k].intake_id \in DOMAIN intakes
    /\ \A k \in DOMAIN action_items :
         action_items[k].intake_id \in DOMAIN intakes

\* the rows of a child table that do not belong to an intake
NotOf(table, intake_id) ==
    [k \in {j \in DOMAIN table : table[j].intake_id # intake_id} |-> table[k]]

\* C27: every child entry references an intake that exists; creating a child
\* for a non-existent intake is rejected; delete_intake removes the intake
\* with all its risk findings, artifacts and action items and leaves the other
\* intakes and their children unchanged.
C27_NoOrphanChildren ==
    /\ []NoOrphans
    /\ [][/\ (/\ req'.op \in {"create_risk", "create_artifact", "create_action"}
              /\ req'.intake_id \notin DOMAIN intakes)
            => EndsUnchanged(Http(404))
          /\ (req'.op = "delete_intake" /\ req'.intake_id \in DOMAIN intakes)
            => /\ resp' = Http(204)
               /\ intakes' = [i \in DOMAIN intakes \ {req'.intake_id} |-> intakes[i]]
               /\ risk_assessments' = NotOf(risk_assessments, req'.intake_id)
               /\ required_artifacts' = NotOf(required_artifacts, req'.intake_id)
               /\ action_items' = NotOf(action_items, req'.intake_id)
               /\ UNCHANGED usecases]_vars

\* C27 witness: an intake was deleted together with two children while the
\* other intake keeps a child of its own
C27_Witness ==
    /\ req.op = "delete_intake"
    /\ resp = Http(204)
    /\ req.cascaded = 2
    /\ req.intake_id \notin DOMAIN intakes
    /\ \E i \in DOMAIN intakes :
         ChildrenOf(risk_assessments, i) \cup ChildrenOf(required_artifacts, i)
           \cup ChildrenOf(action_items, i) # {}

=============================================================================
